---- MODULE Spec2Model ----
(***************************************************************************)
(* Cloudglue MCP server: the reuse / pagination orchestration of the       *)
(* content tools (describe_video, extract_video_entities,                  *)
(* segment_video_chapters) and of the list tools.                          *)
(*                                                                         *)
(* The remote Cloudglue service is the only state: the job stores and the  *)
(* artifacts stored in collections.  One action models one tool            *)
(* invocation, from the arguments to the returned envelope; the remote     *)
(* calls it issued are kept in `calls`, the envelope in `envelope`, until  *)
(* the transport has sent the response.  Any remote call may throw.        *)
(* The tools share no state, so a behaviour follows a client that uses one *)
(* family of tools (`session`).                                            *)
(***************************************************************************)
EXTENDS Integers, Sequences, FiniteSets, TLC

VARIABLES
  describes,          \* remote describe jobs, oldest first
  extracts,           \* remote extract jobs, oldest first
  segmentJobs,        \* remote segmentation jobs, oldest first
  mediaDescriptions,  \* descriptions stored in collections
  collectionEntities, \* entities stored in collections
  fileCount,          \* number of completed files of the account
  collectionVideos,   \* number of completed videos in the collection
  collectionCount,    \* number of collections of the account
  collectionType,     \* type of the collections ("none": no such collection)
  summaryCount,       \* number of descriptions the collection holds
  session,            \* the family of tools the connected client uses
  request,            \* arguments of the invocation being answered
  calls,              \* remote calls of that invocation, in order
  envelope,           \* document the invocation returns
  pc,                 \* position of each process of a handler seen step by step
  fetchList,          \* list a listing call returned to such a handler
  slots,              \* array Promise.all fills, one slot per element of fetchList
  settled             \* the processes that settled, in the order they did

vars == <<describes, extracts, segmentJobs, mediaDescriptions,
          collectionEntities, fileCount, collectionVideos,
          collectionCount, collectionType, summaryCount,
          session, request, calls, envelope,
          pc, fetchList, slots, settled>>

remote == <<describes, extracts, segmentJobs, mediaDescriptions,
            collectionEntities, fileCount, collectionVideos,
            collectionCount, collectionType, summaryCount, session>>

\* The variables of the step-by-step views of a handler; the tool
\* invocations seen as one step leave them alone.
stepwise == <<pc, fetchList, slots, settled>>

-----------------------------------------------------------------------------
(* Bounds *)

MaxPage == 3

MaxJobs == 2

(* Program constants *)

PAGE_SIZE_SECONDS == 300

SEGMENTS_PER_PAGE == 25

VIDEOS_PER_PAGE == 25

COLLECTIONS_PER_PAGE == 25

SUMMARIES_PER_PAGE == 25

\* limit of the listVideos call of list_collections
LIST_VIDEOS_LIMIT == 100

\* limit of searchContent
SEARCH_LIMIT == 20

\* JavaScript's Infinity: larger than every duration and start time used.
Infinity == 1000000

\* JSON.stringify renders a non-finite number as null.
JsonNull == -1

-----------------------------------------------------------------------------
(* Inputs *)

\* URLs are sequences of tokens, so that the prefix / substring / regex
\* tests of the code are computed and not assumed.
FileUrl == <<"cloudglue://", "files/", "f1">>

YouTubeUrl == <<"https://", "youtube.com", "/watch?v=v1">>

Urls == {FileUrl, YouTubeUrl}

ShortYouTubeUrl == <<"https://", "youtu.be", "/v1">>

HttpUrl == <<"https://", "example.com", "/video.mp4">>

\* A platform file reference that carries the name of the video host
TaggedFileUrl == <<"cloudglue://", "files/", "f1", "?ref=", "youtu.be">>

\* URLs given to describe_video
DescribeUrls == Urls \cup {TaggedFileUrl}

\* URLs given to the camera-shot tool
ShotUrls == {FileUrl, HttpUrl, YouTubeUrl, ShortYouTubeUrl}

NoUrl == <<>>

\* An absent optional string argument and the empty string are both falsy.
Undefined == ""

CollectionIds == {Undefined, "c1"}

Prompts == {Undefined, "p1", "p2"}

Pages == 0..MaxPage

Queries == {"q0", "q1"}

FileIds == {"f1", "f2"}

\* Date arguments of retrieve_summaries (absent, or a day)
Dates == {Undefined, "day1", "day2"}

\* Instants of a day told apart: its first, one within it, its last.
TicksPerDay == 3

\* Numbers of descriptions a collection holds
SummaryCounts == {0, 26, 80}

CollectionTypes == {"none", "rich-transcripts", "media-descriptions", "entities"}

StartTimes == {0, 1, 300}

\* duration_seconds reported by the service; 0 stands for an absent one
\* as well (the code reads `duration_seconds || 0`).
Durations == {0, 1, 300, 301, 1000}

\* total number of segment entities / files reported by the service
Totals == {0, 25, 26}

\* number of completed videos of a collection: the totals above and a
\* collection larger than one listing
CollectionSizes == Totals \cup {LIST_VIDEOS_LIMIT + 20}

\* number of segments of a completed segmentation job
SegmentCounts == {0, 2}

-----------------------------------------------------------------------------
(* Arithmetic of the handlers *)

Max(a, b) == IF a >= b THEN a ELSE b

Min(a, b) == IF a <= b THEN a ELSE b

\* (duration || Infinity)
OrInfinity(d) == IF d = 0 THEN Infinity ELSE d

\* a - b on numbers that may be Infinity
Minus(a, b) == IF a = Infinity THEN Infinity ELSE a - b

\* Math.ceil(a / size) for a >= 0
CeilDiv(a, size) == IF a = Infinity THEN Infinity ELSE (a + size - 1) \div size

\* JSON.stringify of a number field
JsonNumber(n) == IF n = Infinity THEN JsonNull ELSE n

\* Slip: Math.floor in place of Math.ceil.
TotalPages_Floor(remainingDuration) ==
  IF remainingDuration > 0
  THEN (IF remainingDuration = Infinity THEN Infinity
        ELSE remainingDuration \div PAGE_SIZE_SECONDS)
  ELSE 1

\* totalPages = remainingDuration > 0 ? Math.ceil(remainingDuration / PAGE_SIZE_SECONDS) : 1
TotalPages(remainingDuration) ==
  IF remainingDuration > 0 THEN CeilDiv(remainingDuration, PAGE_SIZE_SECONDS) ELSE 1

\* Math.max(0, duration - start_time_seconds)
RemainingDuration(duration, start_time_seconds) ==
  Max(0, Minus(duration, start_time_seconds))

\* Slip: the window of the following page.
ActualStartTime_NextPage(start_time_seconds, page) ==
  start_time_seconds + (page + 1) * PAGE_SIZE_SECONDS

\* start_time_seconds + page * PAGE_SIZE_SECONDS
ActualStartTime(start_time_seconds, page) ==
  start_time_seconds + page * PAGE_SIZE_SECONDS

\* Slip: the end of the window is not clamped to the duration.
ActualEndTime_Unclamped(start_time_seconds, page, duration) ==
  start_time_seconds + (page + 1) * PAGE_SIZE_SECONDS

\* Math.min(start_time_seconds + (page + 1) * PAGE_SIZE_SECONDS, duration)
ActualEndTime(start_time_seconds, page, duration) ==
  Min(start_time_seconds + (page + 1) * PAGE_SIZE_SECONDS, duration)

\* offset = page * PER_PAGE
Offset(page, perPage) == page * perPage

\* totalPages = total > 0 ? Math.ceil(total / PER_PAGE) : 1
TotalPagesOfCount(total, perPage) ==
  IF total > 0 THEN CeilDiv(total, perPage) ELSE 1

-----------------------------------------------------------------------------
(* URLs *)

RECURSIVE Includes(_, _)
\* url.includes(token)
Includes(url, token) ==
  IF url = <<>> THEN FALSE
  ELSE Head(url) = token \/ Includes(Tail(url), token)

\* url.startsWith(token)
StartsWith(url, token) == url # <<>> /\ Head(url) = token

Null == <<>>

\* url.match(/cloudglue:\/\/files\/(.+)/): the first place where the
\* pattern occurs, followed by at least one character; the rest is the id.
extractFileIdFromUrl(url) ==
  LET hits == {i \in 1..Len(url) :
                 /\ i + 2 <= Len(url)
                 /\ url[i] = "cloudglue://"
                 /\ url[i + 1] = "files/"}
  IN IF hits = {} THEN Null
     ELSE LET i == CHOOSE h \in hits : \A k \in hits : h <= k
          IN SubSeq(url, i + 2, Len(url))

-----------------------------------------------------------------------------
(* The remote service as the handlers see it *)

\* Slip: a submitted job takes the place of the last job of the service.
StoreJob_Overwrite(store, job) ==
  IF store = <<>> THEN <<job>> ELSE [store EXCEPT ![Len(store)] = job]

\* The service files a submitted job behind the jobs it holds; its id is
\* its place.
StoreJob(store, job) == Append(store, job)

\* One remote call of an invocation: the operation, what it was about,
\* the time range or the offset/limit it asked for (-1: none), and
\* whether it returned (ok) or threw.
Call(op, url, job, from, to, ok) ==
  [op |-> op, url |-> url, job |-> job, from |-> from, to |-> to, ok |-> ok]

JobCount == Len(describes) + Len(extracts) + Len(segmentJobs)

\* Indices of the completed jobs of a store that are about url.
CompletedFor(store, url) ==
  {i \in 1..Len(store) : store[i].url = url /\ store[i].status = "completed"}

\* list...({limit: 1, status: "completed", url}): the most recent
\* completed job for the url, as a list of job ids of length <= 1.
ListLatest(store, url) ==
  LET c == CompletedFor(store, url)
  IN IF c = {} THEN <<>> ELSE <<CHOOSE i \in c : \A k \in c : k <= i>>

\* collections.getMediaDescriptions(collection_id, fileId): the stored
\* description, or a result without content when nothing is stored.
getMediaDescriptions(collection_id, fileId) ==
  LET hits == {m \in mediaDescriptions :
                 m.collection_id = collection_id /\ m.file_id = fileId}
  IN IF hits = {} THEN [content |-> FALSE, duration_seconds |-> 0]
     ELSE LET m == CHOOSE h \in hits : TRUE
          IN [content |-> TRUE, duration_seconds |-> m.duration_seconds]

-----------------------------------------------------------------------------
(* Payloads *)

\* The empty string.
EmptyString == [kind |-> "empty", src |-> "none", id |-> 0, from |-> -1, to |-> -1]

\* Markdown content of a stored artifact (src "collection") or of a job
\* (src "job"), for the range [from, to); from = to = -1 is the whole.
Content(src, id, from, to) ==
  [kind |-> "content", src |-> src, id |-> id, from |-> from, to |-> to]

\* Slip: every failure carries the message of the catch block.
ErrorText_OfCatch(which) ==
  [kind |-> "Error creating description", src |-> "none", id |-> 0, from |-> -1, to |-> -1]

\* An error message put in the description field.
ErrorText(which) == [kind |-> which, src |-> "none", id |-> 0, from |-> -1, to |-> -1]

\* formatPaginatedResponse(descriptionContent, currentPage, totalPages);
\* `path` records the branch that returned.
formatPaginatedResponse(path, descriptionContent, currentPage, totalPages) ==
  [tool |-> "describe_video", path |-> path,
   keys |-> {"description", "page", "total_pages"},
   description |-> descriptionContent,
   page |-> currentPage,
   total_pages |-> JsonNumber(totalPages)]

\* Slip: a failure of Step 3 reported as a page of a new description.
DescribeFailure_AsPage(which, page) ==
  [tool |-> "describe_video", path |-> "new",
   keys |-> {"description", "page", "total_pages"},
   description |-> ErrorText(which),
   page |-> page,
   total_pages |-> 1]

\* The two failure documents of Step 3.
DescribeFailure(which, page) ==
  [tool |-> "describe_video", path |-> "failure",
   keys |-> {"description", "page", "total_pages"},
   description |-> ErrorText(which),
   page |-> page,
   total_pages |-> 0]

\* No invocation is being answered.
NoRequest ==
  [tool |-> "none", url |-> NoUrl, collection_id |-> Undefined,
   prompt |-> Undefined, page |-> 0, start_time_seconds |-> 0]

NoEnvelope == [tool |-> "none", path |-> "none", keys |-> {}]

\* The handler returns: the invocation, its calls and its document.
Return(req, cs, doc) ==
  /\ request' = req
  /\ calls' = cs
  /\ envelope' = doc

-----------------------------------------------------------------------------
(* describe_video *)

\* describeOptions of Step 3
DescribeOptions(url) ==
  LET isYouTube == Includes(url, "youtube.com") \/ Includes(url, "youtu.be")
      isCloudGlue == StartsWith(url, "cloudglue://")
  IN [enable_summary |-> isYouTube,
      enable_speech |-> TRUE,
      enable_scene_text |-> isCloudGlue,
      enable_visual_scene_description |-> isCloudGlue]

\* Step 3, after waitForReady returned a completed job.
DescribeNewJob(req, cs, jobId, completedJob) ==
  LET page == req.page
      start_time_seconds == req.start_time_seconds
      duration == completedJob.duration_seconds
      remainingDuration == RemainingDuration(OrInfinity(duration), start_time_seconds)
      totalPages == TotalPages(remainingDuration)
      actualStartTime == ActualStartTime(start_time_seconds, page)
      actualEndTime == ActualEndTime(start_time_seconds, page, OrInfinity(duration))
  IN IF start_time_seconds >= OrInfinity(duration) \/ remainingDuration = 0
     THEN Return(req, cs, formatPaginatedResponse("new", EmptyString, page, totalPages))
     ELSE IF duration > 0
     THEN IF actualStartTime >= OrInfinity(duration)
          THEN Return(req, cs, formatPaginatedResponse("new", EmptyString, page, totalPages))
          ELSE \/ Return(req,
                         Append(cs, Call("getDescribe", req.url, jobId,
                                         actualStartTime, actualEndTime, TRUE)),
                         formatPaginatedResponse("new",
                            Content("job", jobId, actualStartTime, actualEndTime),
                            page, totalPages))
               \/ Return(req,
                         Append(cs, Call("getDescribe", req.url, jobId,
                                         actualStartTime, actualEndTime, FALSE)),
                         DescribeFailure("Error creating description", page))
     ELSE IF page = 0 /\ start_time_seconds = 0
          THEN Return(req, cs, formatPaginatedResponse("new",
                                  Content("job", jobId, -1, -1), page, totalPages))
          ELSE Return(req, cs, formatPaginatedResponse("new", EmptyString, page, totalPages))

\* Step 3: Create new description
DescribeStep3(req, cs) ==
  LET jobId == Len(describes) + 1
      created == Append(cs, Call("createDescribe", req.url, jobId, -1, -1, TRUE))
      waited(ok) == Append(created, Call("waitForReady", req.url, jobId, -1, -1, ok))
      job(status, duration) ==
        [url |-> req.url, status |-> status, duration_seconds |-> duration,
         options |-> DescribeOptions(req.url)]
  IN \/ \* createDescribe throws
        /\ describes' = describes
        /\ Return(req, Append(cs, Call("createDescribe", req.url, 0, -1, -1, FALSE)),
                  DescribeFailure("Error creating description", req.page))
     \/ \* waitForReady throws; the job stays behind, not completed
        /\ JobCount < MaxJobs
        /\ describes' = StoreJob(describes, job("pending", 0))
        /\ Return(req, waited(FALSE),
                  DescribeFailure("Error creating description", req.page))
     \/ \* the job ends in a state other than completed
        /\ JobCount < MaxJobs
        /\ describes' = StoreJob(describes, job("failed", 0))
        /\ Return(req, waited(TRUE),
                  DescribeFailure("Error: Failed to create description", req.page))
     \/ \* the job completes
        /\ JobCount < MaxJobs
        /\ \E duration \in Durations :
             /\ describes' = StoreJob(describes, job("completed", duration))
             /\ DescribeNewJob(req, waited(TRUE), jobId, job("completed", duration))

\* Step 2, with the job the listing returned.
DescribeExistingJob(req, cs) ==
  LET page == req.page
      start_time_seconds == req.start_time_seconds
      describeJobId == ListLatest(describes, req.url)[1]
      describeJob == describes[describeJobId]
      duration == describeJob.duration_seconds
      remainingDuration == RemainingDuration(duration, start_time_seconds)
      totalPages == TotalPages(remainingDuration)
      actualStartTime == ActualStartTime(start_time_seconds, page)
      actualEndTime == ActualEndTime(start_time_seconds, page, duration)
      get(from, to, ok) == Append(cs, Call("getDescribe", req.url, describeJobId, from, to, ok))
  IN IF start_time_seconds >= duration \/ remainingDuration = 0
     THEN /\ describes' = describes
          /\ Return(req, cs, formatPaginatedResponse("existing", EmptyString, page, totalPages))
     ELSE IF duration = 0
     THEN \/ /\ describes' = describes
             /\ Return(req, get(-1, -1, TRUE),
                       formatPaginatedResponse("existing",
                          Content("job", describeJobId, -1, -1), page, totalPages))
          \/ DescribeStep3(req, get(-1, -1, FALSE))
     ELSE IF actualStartTime >= duration
     THEN /\ describes' = describes
          /\ Return(req, cs, formatPaginatedResponse("existing", EmptyString, page, totalPages))
     ELSE \/ /\ describes' = describes
             /\ Return(req, get(actualStartTime, actualEndTime, TRUE),
                       formatPaginatedResponse("existing",
                          Content("job", describeJobId, actualStartTime, actualEndTime),
                          page, totalPages))
          \/ DescribeStep3(req, get(actualStartTime, actualEndTime, FALSE))

\* Slip: a listing that throws ends the invocation with an error document.
DescribeStep2_ListingSurfaces(req, cs) ==
  LET existingDescriptions == ListLatest(describes, req.url)
      listed(ok) ==
        Append(cs, Call("listDescribes", req.url,
                        IF ok /\ Len(existingDescriptions) > 0
                        THEN existingDescriptions[1] ELSE 0,
                        -1, -1, ok))
  IN \/ /\ describes' = describes
        /\ Return(req, listed(FALSE),
                  DescribeFailure("Error creating description", req.page))
     \/ IF Len(existingDescriptions) > 0
        THEN DescribeExistingJob(req, listed(TRUE))
        ELSE DescribeStep3(req, listed(TRUE))

\* Step 2: Check for existing individual descriptions for this URL
DescribeStep2(req, cs) ==
  LET existingDescriptions == ListLatest(describes, req.url)
      listed(ok) ==
        Append(cs, Call("listDescribes", req.url,
                        IF ok /\ Len(existingDescriptions) > 0
                        THEN existingDescriptions[1] ELSE 0,
                        -1, -1, ok))
  IN \/ \* listDescribes throws
        DescribeStep3(req, listed(FALSE))
     \/ IF Len(existingDescriptions) > 0
        THEN DescribeExistingJob(req, listed(TRUE))
        ELSE DescribeStep3(req, listed(TRUE))

\* Step 1, with the stored description the collection returned.
DescribeFromCollection(req, cs, fileId, fullDescription) ==
  LET page == req.page
      start_time_seconds == req.start_time_seconds
      duration == fullDescription.duration_seconds
      remainingDuration == RemainingDuration(duration, start_time_seconds)
      totalPages == TotalPages(remainingDuration)
      actualStartTime == ActualStartTime(start_time_seconds, page)
      actualEndTime == ActualEndTime(start_time_seconds, page, duration)
      get(ok) == Append(cs, Call("getMediaDescriptions", req.url, 0,
                                 actualStartTime, actualEndTime, ok))
  IN IF start_time_seconds >= duration \/ remainingDuration = 0
     THEN /\ describes' = describes
          /\ Return(req, cs, formatPaginatedResponse("collection", EmptyString, page, totalPages))
     ELSE IF actualStartTime >= duration
     THEN /\ describes' = describes
          /\ Return(req, cs, formatPaginatedResponse("collection", EmptyString, page, totalPages))
     ELSE IF page = 0 /\ start_time_seconds = 0 /\ duration <= PAGE_SIZE_SECONDS
     THEN /\ describes' = describes
          /\ Return(req, cs, formatPaginatedResponse("collection",
                                Content("collection", 0, -1, -1), page, totalPages))
     ELSE \/ /\ describes' = describes
             /\ Return(req, get(TRUE),
                       formatPaginatedResponse("collection",
                          Content("collection", 0, actualStartTime, actualEndTime),
                          page, totalPages))
          \/ DescribeStep2(req, get(FALSE))

\* Slip: a stored description is never recognised.
DescriptionFound_Never(fullDescription) == FALSE

\* fullDescription.content !== undefined
DescriptionFound(fullDescription) == fullDescription.content

\* if (collection_id && fileId)
CollectionStepApplies(collection_id, fileId) ==
  collection_id # Undefined /\ fileId # Null

\* Step 1: Check if we have a collection_id and file_id, get from collection
DescribeStep1(req) ==
  LET fileId == extractFileIdFromUrl(req.url)
      fullDescription == getMediaDescriptions(req.collection_id, fileId)
      got(ok) == <<Call("getMediaDescriptions", req.url, 0, -1, -1, ok)>>
  IN IF CollectionStepApplies(req.collection_id, fileId)
     THEN \/ \* getMediaDescriptions throws
             DescribeStep2(req, got(FALSE))
          \/ IF DescriptionFound(fullDescription)
             THEN DescribeFromCollection(req, got(TRUE), fileId, fullDescription)
             ELSE DescribeStep2(req, got(TRUE))
     ELSE DescribeStep2(req, <<>>)

\* The describe_video handler.
DescribeVideo ==
  /\ session = "describe"
  /\ request = NoRequest
  /\ \E url \in DescribeUrls, collection_id \in CollectionIds,
        page \in Pages, start_time_seconds \in StartTimes :
       DescribeStep1([tool |-> "describe_video", url |-> url,
                      collection_id |-> collection_id, prompt |-> Undefined,
                      page |-> page, start_time_seconds |-> start_time_seconds])
  /\ UNCHANGED <<extracts, segmentJobs, mediaDescriptions, collectionEntities,
               fileCount, collectionVideos,
                 collectionCount, collectionType, summaryCount, session, stepwise>>

-----------------------------------------------------------------------------
(* extract_video_entities *)

\* collections.getEntities(collection_id, fileId, {limit, offset}): the
\* stored extraction, or a result without entities when nothing is stored.
getEntities(collection_id, fileId) ==
  LET hits == {e \in collectionEntities :
                 e.collection_id = collection_id /\ e.file_id = fileId}
  IN IF hits = {} THEN [found |-> FALSE, entities |-> FALSE, total |-> 0]
     ELSE LET e == CHOOSE h \in hits : TRUE
          IN [found |-> TRUE, entities |-> e.entities, total |-> e.total]

\* Number of items a listing of `total` items returns for {limit, offset}.
SliceLength(total, offset, limit) == Max(0, Min(limit, total - offset))

\* A page of segment entities: the items [offset, offset + length) of a source.
SegmentEntities(src, id, offset, length) ==
  [src |-> src, id |-> id, offset |-> offset, length |-> length]

NoSegmentEntities == SegmentEntities("none", 0, 0, 0)

\* formatPaginatedEntityResponse(videoLevelEntities, segmentEntities, currentPage, totalPages)
formatPaginatedEntityResponse(path, videoLevelEntities, segmentEntities, currentPage, totalPages) ==
  [tool |-> "extract_video_entities", path |-> path,
   keys |-> {"video_level_entities", "segment_level_entities"},
   video_level_entities |-> videoLevelEntities,
   entities |-> segmentEntities,
   page |-> currentPage,
   total_pages |-> JsonNumber(totalPages),
   error |-> "none"]

\* Slip: an error document that reports one page.
ExtractFailure_OnePage(path, error, page) ==
  [tool |-> "extract_video_entities", path |-> path,
   keys |-> {"video_level_entities", "segment_level_entities", "error"},
   video_level_entities |-> FALSE,
   entities |-> NoSegmentEntities,
   page |-> page,
   total_pages |-> 1,
   error |-> error]

\* The error documents of the handler.
ExtractFailure(path, error, page) ==
  [tool |-> "extract_video_entities", path |-> path,
   keys |-> {"video_level_entities", "segment_level_entities", "error"},
   video_level_entities |-> FALSE,
   entities |-> NoSegmentEntities,
   page |-> page,
   total_pages |-> 0,
   error |-> error]

\* The configuration createExtract is called with.
CreateExtractConfig(prompt) ==
  [prompt |-> prompt,
   enable_video_level_entities |-> TRUE,
   enable_segment_level_entities |-> FALSE]

\* Slip: the prompt of the listed job is not compared.
ReuseExtract_AnyPrompt(extract, prompt) ==
  /\ extract.extract_config.enable_video_level_entities = TRUE
  /\ extract.extract_config.enable_segment_level_entities = TRUE

\* "Only reuse if the prompt matches"
ReuseExtract(extract, prompt) ==
  /\ extract.extract_config.prompt = prompt
  /\ extract.extract_config.enable_video_level_entities = TRUE
  /\ extract.extract_config.enable_segment_level_entities = TRUE

\* The call getExtract(job_id, {limit, offset}) of a page.
GetExtract(req, jobId, ok) ==
  Call("getExtract", req.url, jobId,
       Offset(req.page, SEGMENTS_PER_PAGE), SEGMENTS_PER_PAGE, ok)

\* getExtract returned: the document built from the extraction.
ExtractPage(path, req, cs, jobId, job) ==
  LET limit == SEGMENTS_PER_PAGE
      offset == Offset(req.page, SEGMENTS_PER_PAGE)
      totalPages == TotalPagesOfCount(job.total, SEGMENTS_PER_PAGE)
  IN Return(req, Append(cs, GetExtract(req, jobId, TRUE)),
            formatPaginatedEntityResponse(path, TRUE,
               SegmentEntities("job", jobId, offset,
                               SliceLength(job.total, offset, limit)),
               req.page, totalPages))

\* Step 3: Create new entity extraction
ExtractStep3(req, cs) ==
  LET jobId == Len(extracts) + 1
      created == Append(cs, Call("createExtract", req.url, jobId, -1, -1, TRUE))
      waited(ok) == Append(created, Call("waitForReady", req.url, jobId, -1, -1, ok))
      job(status, total) ==
        [url |-> req.url, status |-> status,
         extract_config |-> CreateExtractConfig(req.prompt), total |-> total]
      failed(c) == Return(req, c, ExtractFailure("failure",
                                     "Error creating entity extraction", req.page))
      completed(total) == job("completed", total)
  IN \/ \* createExtract throws
        /\ extracts' = extracts
        /\ Return(req, Append(cs, Call("createExtract", req.url, 0, -1, -1, FALSE)),
                  ExtractFailure("failure", "Error creating entity extraction", req.page))
     \/ \* waitForReady throws; the job stays behind, not completed
        /\ JobCount < MaxJobs
        /\ extracts' = StoreJob(extracts, job("pending", 0))
        /\ failed(waited(FALSE))
     \/ \* the job ends in a state other than completed
        /\ JobCount < MaxJobs
        /\ extracts' = StoreJob(extracts, job("failed", 0))
        /\ Return(req, waited(TRUE),
                  ExtractFailure("failure", "Failed to create entity extraction", req.page))
     \/ \* the job completes
        /\ JobCount < MaxJobs
        /\ \E total \in Totals :
             /\ extracts' = StoreJob(extracts, completed(total))
             /\ \/ ExtractPage("new", req, waited(TRUE), jobId, completed(total))
                \/ \* getExtract throws
                   failed(Append(waited(TRUE), GetExtract(req, jobId, FALSE)))

\* Slip: the job is submitted without listing prior extractions.
ExtractStep2_NoListing(req, cs) == ExtractStep3(req, cs)

\* Step 2: Check for existing individual extracts for this URL with matching prompt
ExtractStep2(req, cs) ==
  LET existingExtracts == ListLatest(extracts, req.url)
      listed(ok) ==
        Append(cs, Call("listExtracts", req.url,
                        IF ok /\ Len(existingExtracts) > 0
                        THEN existingExtracts[1] ELSE 0,
                        -1, -1, ok))
  IN \/ \* listExtracts throws
        ExtractStep3(req, listed(FALSE))
     \/ IF Len(existingExtracts) > 0
           /\ ReuseExtract(extracts[existingExtracts[1]], req.prompt)
        THEN \/ /\ extracts' = extracts
                /\ ExtractPage("existing", req, listed(TRUE), existingExtracts[1],
                               extracts[existingExtracts[1]])
             \/ \* getExtract throws inside the try of Step 2
                ExtractStep3(req, Append(listed(TRUE),
                                GetExtract(req, existingExtracts[1], FALSE)))
        ELSE ExtractStep3(req, listed(TRUE))

\* Slip: whatever the collection returns counts as found.
EntitiesFound_Always(entities, segmentLength) == TRUE

\* entities && (entities.entities || (entities.segment_entities &&
\*                                    entities.segment_entities.length > 0))
EntitiesFound(entities, segmentLength) ==
  entities.found /\ (entities.entities \/ segmentLength > 0)

\* Step 1: Check if we have a collection_id and file_id, get from collection
ExtractStep1(req, fileId) ==
  LET limit == SEGMENTS_PER_PAGE
      offset == Offset(req.page, SEGMENTS_PER_PAGE)
      entities == getEntities(req.collection_id, fileId)
      segmentLength == SliceLength(entities.total, offset, limit)
      got(ok) == <<Call("getEntities", req.url, 0, offset, limit, ok)>>
      totalPages == TotalPagesOfCount(entities.total, SEGMENTS_PER_PAGE)
  IN /\ extracts' = extracts
     /\ \/ \* getEntities throws
           Return(req, got(FALSE),
                  ExtractFailure("collection_error",
                                 "Error fetching entities from collection", req.page))
        \/ IF EntitiesFound(entities, segmentLength)
           THEN Return(req, got(TRUE),
                       formatPaginatedEntityResponse("collection", entities.entities,
                          SegmentEntities("collection", 0, offset, segmentLength),
                          req.page, totalPages))
           ELSE Return(req, got(TRUE),
                       ExtractFailure("collection_miss",
                                      "No entities found for video in collection",
                                      req.page))

\* The body of the handler.
ExtractHandler(req) ==
  LET fileId == extractFileIdFromUrl(req.url)
  IN IF req.collection_id = Undefined /\ req.prompt = Undefined
     THEN /\ extracts' = extracts
          /\ Return(req, <<>>,
                    ExtractFailure("usage_error",
                       "Either 'collection_id' or 'prompt' must be provided", req.page))
     ELSE IF CollectionStepApplies(req.collection_id, fileId)
     THEN ExtractStep1(req, fileId)
     ELSE IF req.collection_id # Undefined /\ fileId = Null
     THEN /\ extracts' = extracts
          /\ Return(req, <<>>,
                    ExtractFailure("usage_error",
                       "collection_id requires a Cloudglue URL", req.page))
     ELSE IF req.prompt = Undefined
     THEN /\ extracts' = extracts
          /\ Return(req, <<>>,
                    ExtractFailure("usage_error",
                       "prompt is required when collection_id is not provided", req.page))
     ELSE ExtractStep2(req, <<>>)

\* The extract_video_entities handler.
ExtractVideoEntities ==
  /\ session = "extract"
  /\ request = NoRequest
  /\ \E url \in Urls, prompt \in Prompts, collection_id \in CollectionIds,
        page \in Pages :
       ExtractHandler([tool |-> "extract_video_entities", url |-> url,
                       collection_id |-> collection_id, prompt |-> prompt,
                       page |-> page, start_time_seconds |-> 0])
  /\ UNCHANGED <<describes, segmentJobs, mediaDescriptions, collectionEntities,
               fileCount, collectionVideos,
                 collectionCount, collectionType, summaryCount, session, stepwise>>

-----------------------------------------------------------------------------
(* segment_video_chapters *)

\* segments.listSegmentJobs({criteria, url, status: "completed", limit: 1})
ListLatestSegmentJob(criteria, url) ==
  LET c == {i \in CompletedFor(segmentJobs, url) : segmentJobs[i].criteria = criteria}
  IN IF c = {} THEN <<>> ELSE <<CHOOSE i \in c : \A k \in c : k <= i>>

\* The success document of the chapter tool; chapters are the segments
\* 1 .. total_chapters of the job.
ChaptersResponse(source, req, jobId, segments) ==
  [tool |-> "segment_video_chapters", path |-> source,
   keys |-> {"url", "chapters", "total_chapters", "source"}
            \cup (IF req.prompt # Undefined THEN {"prompt"} ELSE {}),
   url |-> req.url,
   job |-> jobId,
   total_chapters |-> segments,
   source |-> source,
   prompt |-> req.prompt,
   error |-> "none"]

\* formatErrorResponse(error) of the chapter tool
ChaptersErrorResponse(req, error) ==
  [tool |-> "segment_video_chapters", path |-> "failure",
   keys |-> {"url", "error", "chapters", "total_chapters"},
   url |-> req.url,
   job |-> 0,
   total_chapters |-> 0,
   source |-> "none",
   prompt |-> Undefined,
   error |-> error]

\* narrativeConfig of Step 2
NarrativeConfig(prompt) == [prompt |-> prompt]

\* Step 2: Create new narrative segmentation job
ChaptersStep2(req, cs) ==
  LET jobId == Len(segmentJobs) + 1
      created == Append(cs, Call("createSegmentJob", req.url, jobId, -1, -1, TRUE))
      waited(ok) == Append(created, Call("waitForReady", req.url, jobId, -1, -1, ok))
      job(status, segments) ==
        [url |-> req.url, criteria |-> "narrative", status |-> status,
         narrative_config |-> NarrativeConfig(req.prompt), segments |-> segments]
  IN \/ \* createSegmentJob throws
        /\ segmentJobs' = segmentJobs
        /\ Return(req, Append(cs, Call("createSegmentJob", req.url, 0, -1, -1, FALSE)),
                  ChaptersErrorResponse(req, "Error creating chapter segmentation"))
     \/ \* waitForReady throws; the job stays behind, not completed
        /\ JobCount < MaxJobs
        /\ segmentJobs' = StoreJob(segmentJobs, job("pending", 0))
        /\ Return(req, waited(FALSE),
                  ChaptersErrorResponse(req, "Error creating chapter segmentation"))
     \/ \* the job ends in a state other than completed
        /\ JobCount < MaxJobs
        /\ segmentJobs' = StoreJob(segmentJobs, job("failed", 0))
        /\ Return(req, waited(TRUE),
                  ChaptersErrorResponse(req, "Failed to create chapter segmentation"))
     \/ \* the job completes
        /\ JobCount < MaxJobs
        /\ \E segments \in SegmentCounts :
             /\ segmentJobs' = StoreJob(segmentJobs, job("completed", segments))
             /\ Return(req, waited(TRUE), ChaptersResponse("new", req, jobId, segments))

\* Slip: a listed job is never taken.
ReuseSegmentJob_Never(existingJobs) == FALSE

\* if (existingJobs.data && existingJobs.data.length > 0)
ReuseSegmentJob(existingJobs) == Len(existingJobs) > 0

\* Step 1: Check for existing narrative segmentation jobs for this URL
ChaptersStep1(req) ==
  LET existingJobs == ListLatestSegmentJob("narrative", req.url)
      listed(ok) ==
        <<Call("listSegmentJobs", req.url,
               IF ok /\ Len(existingJobs) > 0 THEN existingJobs[1] ELSE 0,
               -1, -1, ok)>>
      got(ok) == Append(listed(TRUE),
                        Call("getSegmentJob", req.url, existingJobs[1], -1, -1, ok))
  IN \/ \* listSegmentJobs throws
        ChaptersStep2(req, listed(FALSE))
     \/ IF ReuseSegmentJob(existingJobs)
        THEN \/ \* getSegmentJob throws
                ChaptersStep2(req, got(FALSE))
             \/ IF segmentJobs[existingJobs[1]].segments > 0
                THEN /\ segmentJobs' = segmentJobs
                     /\ Return(req, got(TRUE),
                               ChaptersResponse("existing", req, existingJobs[1],
                                  segmentJobs[existingJobs[1]].segments))
                ELSE ChaptersStep2(req, got(TRUE))
        ELSE ChaptersStep2(req, listed(TRUE))

\* The segment_video_chapters handler.
SegmentVideoChapters ==
  /\ session = "segment"
  /\ request = NoRequest
  /\ \E url \in Urls, prompt \in Prompts :
       ChaptersStep1([tool |-> "segment_video_chapters", url |-> url,
                      collection_id |-> Undefined, prompt |-> prompt,
                      page |-> 0, start_time_seconds |-> 0])
  /\ UNCHANGED <<describes, extracts, mediaDescriptions, collectionEntities,
                 fileCount, collectionVideos,
                 collectionCount, collectionType, summaryCount, session, stepwise>>

-----------------------------------------------------------------------------
(* segment_video_camera_shots *)

\* Slip: every success document says "new".
ShotsResponse_AlwaysNew(source, req, jobId, segments) ==
  [tool |-> "segment_video_camera_shots", path |-> source,
   keys |-> {"url", "segments", "total_shots", "source"},
   url |-> req.url,
   job |-> jobId,
   total_shots |-> segments,
   source |-> "new",
   error |-> "none"]

\* The success document of the camera-shot tool; the shots are the
\* segments 1 .. total_shots of the job.
ShotsResponse(source, req, jobId, segments) ==
  [tool |-> "segment_video_camera_shots", path |-> source,
   keys |-> {"url", "segments", "total_shots", "source"},
   url |-> req.url,
   job |-> jobId,
   total_shots |-> segments,
   source |-> source,
   error |-> "none"]

\* formatErrorResponse(error) of the camera-shot tool; `path` records
\* which return statement produced it.
ShotsErrorResponse(path, req, error) ==
  [tool |-> "segment_video_camera_shots", path |-> path,
   keys |-> {"url", "error", "segments", "total_shots"},
   url |-> req.url,
   job |-> 0,
   total_shots |-> 0,
   source |-> "none",
   error |-> error]

\* Slip: only the long host name is recognised.
IsYouTube_LongOnly(url) == Includes(url, "youtube.com")

\* url.includes("youtube.com") || url.includes("youtu.be")
IsYouTube(url) == Includes(url, "youtube.com") \/ Includes(url, "youtu.be")

\* Step 2: Create new shot segmentation job
ShotsStep2(req, cs) ==
  LET jobId == Len(segmentJobs) + 1
      created == Append(cs, Call("createSegmentJob", req.url, jobId, -1, -1, TRUE))
      waited(ok) == Append(created, Call("waitForReady", req.url, jobId, -1, -1, ok))
      job(status, segments) ==
        [url |-> req.url, criteria |-> "shot", status |-> status,
         narrative_config |-> NarrativeConfig(Undefined), segments |-> segments]
  IN \/ \* createSegmentJob throws
        /\ segmentJobs' = segmentJobs
        /\ Return(req, Append(cs, Call("createSegmentJob", req.url, 0, -1, -1, FALSE)),
                  ShotsErrorResponse("failure", req,
                     "Error creating camera shot segmentation"))
     \/ \* waitForReady throws; the job stays behind, not completed
        /\ JobCount < MaxJobs
        /\ segmentJobs' = StoreJob(segmentJobs, job("pending", 0))
        /\ Return(req, waited(FALSE),
                  ShotsErrorResponse("failure", req,
                     "Error creating camera shot segmentation"))
     \/ \* the job ends in a state other than completed
        /\ JobCount < MaxJobs
        /\ segmentJobs' = StoreJob(segmentJobs, job("failed", 0))
        /\ Return(req, waited(TRUE),
                  ShotsErrorResponse("failure", req,
                     "Failed to create camera shot segmentation"))
     \/ \* the job completes
        /\ JobCount < MaxJobs
        /\ \E segments \in SegmentCounts :
             /\ segmentJobs' = StoreJob(segmentJobs, job("completed", segments))
             /\ Return(req, waited(TRUE), ShotsResponse("new", req, jobId, segments))

\* Step 1: Check for existing shot segmentation jobs for this URL
ShotsStep1(req) ==
  LET existingJobs == ListLatestSegmentJob("shot", req.url)
      listed(ok) ==
        <<Call("listSegmentJobs", req.url,
               IF ok /\ Len(existingJobs) > 0 THEN existingJobs[1] ELSE 0,
               -1, -1, ok)>>
      got(ok) == Append(listed(TRUE),
                        Call("getSegmentJob", req.url, existingJobs[1], -1, -1, ok))
  IN \/ \* listSegmentJobs throws
        ShotsStep2(req, listed(FALSE))
     \/ IF ReuseSegmentJob(existingJobs)
        THEN \/ \* getSegmentJob throws
                ShotsStep2(req, got(FALSE))
             \/ IF segmentJobs[existingJobs[1]].segments > 0
                THEN /\ segmentJobs' = segmentJobs
                     /\ Return(req, got(TRUE),
                               ShotsResponse("existing", req, existingJobs[1],
                                  segmentJobs[existingJobs[1]].segments))
                ELSE ShotsStep2(req, got(TRUE))
        ELSE ShotsStep2(req, listed(TRUE))

\* The segment_video_camera_shots handler.
SegmentVideoCameraShots ==
  /\ session = "shots"
  /\ request = NoRequest
  /\ \E url \in ShotUrls :
       LET req == [tool |-> "segment_video_camera_shots", url |-> url,
                   collection_id |-> Undefined, prompt |-> Undefined,
                   page |-> 0, start_time_seconds |-> 0]
       IN IF IsYouTube(url)
          THEN /\ segmentJobs' = segmentJobs
               /\ Return(req, <<>>,
                         ShotsErrorResponse("usage_error", req,
                            "YouTube URLs are not supported for camera shot segmentation"))
          ELSE ShotsStep1(req)
  /\ UNCHANGED <<describes, extracts, mediaDescriptions, collectionEntities,
                 fileCount, collectionVideos,
                 collectionCount, collectionType, summaryCount, session, stepwise>>

-----------------------------------------------------------------------------
(* list_videos *)

\* The document of list_videos: the videos are the items
\* [offset, offset + length) of the listing.
ListVideosResponse(req, offset, length, totalCount) ==
  [tool |-> "list_videos", path |-> "success",
   keys |-> {"videos", "page", "total_pages"},
   offset |-> offset,
   length |-> length,
   page |-> req.page,
   total_pages |-> JsonNumber(TotalPagesOfCount(totalCount, VIDEOS_PER_PAGE))]

\* A remote call threw and nothing caught it: the handler rejects.
Rejected(req) == [tool |-> req.tool, path |-> "exception", keys |-> {}]

\* The list_videos handler.
ListVideos ==
  /\ session = "list"
  /\ request = NoRequest
  /\ \E page \in Pages, collection_id \in CollectionIds :
       LET req == [tool |-> "list_videos", url |-> NoUrl,
                   collection_id |-> collection_id, prompt |-> Undefined,
                   page |-> page, start_time_seconds |-> 0]
           limit == VIDEOS_PER_PAGE
           offset == Offset(page, VIDEOS_PER_PAGE)
           op == IF collection_id # Undefined THEN "listVideos" ELSE "listFiles"
           totalCount == IF collection_id # Undefined THEN collectionVideos ELSE fileCount
           length == SliceLength(totalCount, offset, limit)
           listed(ok) == <<Call(op, NoUrl, 0, offset, limit, ok)>>
       IN \/ Return(req, listed(FALSE), Rejected(req))
          \/ /\ collection_id # Undefined
             /\ length > 0
             /\ \* one of the getFile calls of Promise.all throws
                Return(req, Append(listed(TRUE), Call("getFile", NoUrl, 0, -1, -1, FALSE)),
                       Rejected(req))
          \/ Return(req, listed(TRUE), ListVideosResponse(req, offset, length, totalCount))
  /\ UNCHANGED <<remote, session, stepwise>>

-----------------------------------------------------------------------------
(* list_collections *)

\* Number of collections the listing counts for a type filter: every
\* collection of the account has the type collectionType.
CollectionsOfType(collection_type) ==
  IF collection_type = Undefined \/ collection_type = collectionType
  THEN collectionCount ELSE 0

\* videos.data.filter(status === "completed").length of
\* listVideos(collection.id, {limit: 100})
CompletedVideoCount == Min(LIST_VIDEOS_LIMIT, collectionVideos)

\* The document of list_collections: the collections are the items
\* [offset, offset + length) of the listing.
ListCollectionsResponse(req, offset, length, total) ==
  [tool |-> "list_collections", path |-> "success",
   keys |-> {"collections", "page", "total_pages"},
   offset |-> offset,
   length |-> length,
   completed_video_count |-> CompletedVideoCount,
   page |-> req.page,
   total_pages |-> JsonNumber(TotalPagesOfCount(total, COLLECTIONS_PER_PAGE))]

\* The list_collections handler.
ListCollections ==
  /\ session = "list"
  /\ request = NoRequest
  /\ \E page \in Pages, collection_type \in {Undefined, "entities"} :
       LET req == [tool |-> "list_collections", page |-> page,
                   collection_type |-> collection_type]
           limit == COLLECTIONS_PER_PAGE
           offset == Offset(page, COLLECTIONS_PER_PAGE)
           total == CollectionsOfType(collection_type)
           length == SliceLength(total, offset, limit)
           listed(ok) == <<Call("listCollections", NoUrl, 0, offset, limit, ok)>>
       IN \/ \* listCollections throws
             Return(req, listed(FALSE), Rejected(req))
          \/ /\ length > 0
             /\ \* one of the listVideos calls of Promise.all throws
                Return(req, Append(listed(TRUE),
                                   Call("listVideos", NoUrl, 0, -1, LIST_VIDEOS_LIMIT, FALSE)),
                       Rejected(req))
          \/ Return(req, listed(TRUE), ListCollectionsResponse(req, offset, length, total))
  /\ UNCHANGED <<remote, session, stepwise>>

-----------------------------------------------------------------------------
(* search_video_moments, search_video_summaries *)

\* response.results?.length of searchContent for a query
SearchResults(query) == IF query = "q1" THEN 2 ELSE 0

\* The success document of a search tool; `found` names its result list.
SearchResponse(tool, found, req, results) ==
  [tool |-> tool, path |-> "success",
   keys |-> {"query", "collection_id", found, "total_results"},
   query |-> req.query,
   collection_id |-> req.collection_id,
   total_results |-> results,
   error |-> "none"]

\* The document of the catch block of search_video_moments
SearchMomentsError(req) ==
  [tool |-> "search_video_moments", path |-> "failure",
   keys |-> {"query", "collection_id", "error", "moments_found", "citations"},
   query |-> req.query,
   collection_id |-> req.collection_id,
   total_results |-> 0,
   error |-> "Failed to search collection"]

\* The document of the catch block of search_video_summaries
SearchSummariesError(req) ==
  [tool |-> "search_video_summaries", path |-> "failure",
   keys |-> {"query", "collection_id", "error", "videos_found", "total_results"},
   query |-> req.query,
   collection_id |-> req.collection_id,
   total_results |-> 0,
   error |-> "Failed to search videos"]

\* The search_video_moments handler.
SearchVideoMoments ==
  /\ session = "query"
  /\ request = NoRequest
  /\ \E query \in Queries :
       LET req == [tool |-> "search_video_moments", collection_id |-> "c1",
                   query |-> query]
           searched(ok) == <<Call("searchContent", NoUrl, 0, -1, SEARCH_LIMIT, ok)>>
       IN \/ Return(req, searched(TRUE),
                    SearchResponse("search_video_moments", "moments_found", req,
                                   SearchResults(query)))
          \/ Return(req, searched(FALSE), SearchMomentsError(req))
  /\ UNCHANGED <<remote, session, stepwise>>

\* The search_video_summaries handler.
SearchVideoSummaries ==
  /\ session = "query"
  /\ request = NoRequest
  /\ \E query \in Queries :
       LET req == [tool |-> "search_video_summaries", collection_id |-> "c1",
                   query |-> query]
           searched(ok) == <<Call("searchContent", NoUrl, 0, -1, SEARCH_LIMIT, ok)>>
       IN \/ Return(req, searched(TRUE),
                    SearchResponse("search_video_summaries", "videos_found", req,
                                   SearchResults(query)))
          \/ Return(req, searched(FALSE), SearchSummariesError(req))
  /\ UNCHANGED <<remote, session, stepwise>>

-----------------------------------------------------------------------------
(* get_video_metadata *)

\* file.status of files.getFile(file_id)
FileStatus(file_id) == IF file_id = "f1" THEN "completed" ELSE "processing"

\* The "Comprehensive metadata response" of a completed file
MetadataResponse(req) ==
  [tool |-> "get_video_metadata", path |-> "success",
   keys |-> {"file_id", "filename", "uri", "status", "created_at", "updated_at",
             "file_size", "mime_type", "metadata", "video_info",
             "processing_info", "computed"},
   file_id |-> req.file_id,
   status |-> FileStatus(req.file_id)]

\* The document returned for a file that is not completed
MetadataIncomplete(req) ==
  [tool |-> "get_video_metadata", path |-> "incomplete",
   keys |-> {"file_id", "status", "error", "metadata"},
   file_id |-> req.file_id,
   status |-> FileStatus(req.file_id)]

\* The document of the catch block of get_video_metadata
MetadataError(req) ==
  [tool |-> "get_video_metadata", path |-> "failure",
   keys |-> {"file_id", "error", "metadata"},
   file_id |-> req.file_id,
   status |-> "none"]

\* The get_video_metadata handler.
GetVideoMetadata ==
  /\ session = "query"
  /\ request = NoRequest
  /\ \E file_id \in FileIds :
       LET req == [tool |-> "get_video_metadata", file_id |-> file_id]
           got(ok) == <<Call("getFile", NoUrl, 0, -1, -1, ok)>>
       IN \/ IF FileStatus(file_id) # "completed"
             THEN Return(req, got(TRUE), MetadataIncomplete(req))
             ELSE Return(req, got(TRUE), MetadataResponse(req))
          \/ Return(req, got(FALSE), MetadataError(req))
  /\ UNCHANGED <<remote, session, stepwise>>

-----------------------------------------------------------------------------
(* retrieve_summaries *)

\* The day a date argument names.
DayNumber(date) == IF date = "day1" THEN 1 ELSE 2

\* new Date(created_after + "T00:00:00.000Z"): the first instant of the day
AfterDate(created_after) == TicksPerDay * DayNumber(created_after)

\* new Date(created_before + "T23:59:59.999Z"): the last instant of the day
BeforeDate(created_before) == TicksPerDay * DayNumber(created_before) + (TicksPerDay - 1)

\* new Date(description.created_at || description.added_at || 0) of the
\* i-th description of the collection: the instants of day 1 and day 2 in turn.
DescriptionDate(i) == TicksPerDay + (i % (2 * TicksPerDay))

\* Slip: the bounds are inclusive.
KeptByDates_Inclusive(i, created_after, created_before) ==
  /\ created_after # Undefined => ~(DescriptionDate(i) < AfterDate(created_after))
  /\ created_before # Undefined => ~(DescriptionDate(i) > BeforeDate(created_before))

\* The predicate of filteredDescriptions.filter(...)
KeptByDates(i, created_after, created_before) ==
  /\ created_after # Undefined => ~(DescriptionDate(i) <= AfterDate(created_after))
  /\ created_before # Undefined => ~(DescriptionDate(i) >= BeforeDate(created_before))

\* fetchLimit = Math.min(limit + offset + 50, 100)
FetchLimit(limit, offset) == Min(limit + offset + 50, 100)

\* descriptions.data of a listing with {limit: fetchLimit, offset: 0}: the
\* first descriptions of the collection, by their position.
Fetched(fetchLimit) == [i \in 1..Min(fetchLimit, summaryCount) |-> i]

\* filteredDescriptions
FilteredDescriptions(fetched, created_after, created_before) ==
  LET Keep(i) == KeptByDates(i, created_after, created_before)
  IN SelectSeq(fetched, Keep)

\* list.slice(offset, offset + limit)
Slice(list, offset, limit) ==
  SubSeq(list, offset + 1, Min(offset + limit, Len(list)))

\* formatErrorResponse(error, collection_type) of retrieve_summaries
SummariesErrorResponse(req, error, collection_type) ==
  [tool |-> "retrieve_summaries", path |-> "failure",
   keys |-> {"error", "collection_id", "summaries", "page", "total_pages"}
            \cup (IF collection_type # "none" THEN {"collection_type"} ELSE {}),
   summaries |-> <<>>,
   collection_type |-> collection_type,
   page |-> req.page,
   total_pages |-> 0,
   error |-> error]

\* The success document of retrieve_summaries
SummariesResponse(req, summaries, totalPages) ==
  [tool |-> "retrieve_summaries", path |-> "success",
   keys |-> {"summaries", "collection_type", "page", "total_pages", "collection_id"}
            \cup (IF req.created_after # Undefined THEN {"filtered_after"} ELSE {})
            \cup (IF req.created_before # Undefined THEN {"filtered_before"} ELSE {}),
   summaries |-> summaries,
   collection_type |-> collectionType,
   page |-> req.page,
   total_pages |-> JsonNumber(totalPages),
   error |-> "none"]

\* Slip: every type of collection is listed.
SupportedCollectionType_Any(collection_type) == TRUE

\* collection_type is "rich-transcripts" or "media-descriptions"
SupportedCollectionType(collection_type) ==
  collection_type \in {"rich-transcripts", "media-descriptions"}

\* The handler after the collection was fetched.
SummariesOfCollection(req, cs) ==
  LET limit == SUMMARIES_PER_PAGE
      offset == Offset(req.page, SUMMARIES_PER_PAGE)
      fetchLimit == FetchLimit(limit, offset)
      op == IF collectionType = "rich-transcripts"
            THEN "listRichTranscripts" ELSE "listMediaDescriptions"
      listed(ok) == Append(cs, Call(op, NoUrl, 0, 0, fetchLimit, ok))
      filteredDescriptions ==
        FilteredDescriptions(Fetched(fetchLimit), req.created_after, req.created_before)
      paginatedDescriptions == Slice(filteredDescriptions, offset, limit)
      totalPages == TotalPagesOfCount(Len(filteredDescriptions), SUMMARIES_PER_PAGE)
  IN IF collectionType = "none"
     THEN Return(req, cs, SummariesErrorResponse(req,
                             "Collection not found or invalid collection ID", "none"))
     ELSE IF ~SupportedCollectionType(collectionType)
     THEN Return(req, cs, SummariesErrorResponse(req,
                             "Collection type is not supported", collectionType))
     ELSE \/ \* the listing throws
             Return(req, listed(FALSE),
                    SummariesErrorResponse(req, "Error fetching descriptions",
                                           collectionType))
          \/ /\ Len(paginatedDescriptions) > 0
             /\ \* a description of the page has no data: description.data.title throws
                Return(req, listed(TRUE), Rejected(req))
          \/ Return(req, listed(TRUE),
                    SummariesResponse(req, paginatedDescriptions, totalPages))

\* The retrieve_summaries handler.
RetrieveSummaries ==
  /\ session = "query"
  /\ request = NoRequest
  /\ \E page \in Pages, created_after \in Dates, created_before \in Dates :
       LET req == [tool |-> "retrieve_summaries", collection_id |-> "c1",
                   page |-> page, created_after |-> created_after,
                   created_before |-> created_before]
           got(ok) == <<Call("getCollection", NoUrl, 0, -1, -1, ok)>>
       IN \/ \* getCollection throws
             Return(req, got(FALSE),
                    SummariesErrorResponse(req, "Error fetching collection", "none"))
          \/ SummariesOfCollection(req, got(TRUE))
  /\ UNCHANGED <<remote, session, stepwise>>

-----------------------------------------------------------------------------
(* Initial states and the next-state relation *)

\* Jobs other clients of the account left in the service (an extraction
\* of theirs asked for segment-level entities).
EarlierDescribes ==
  {<<>>} \cup
  {<<[url |-> u, status |-> "completed", duration_seconds |-> d,
      options |-> DescribeOptions(u)]>> : u \in Urls, d \in Durations}

EarlierExtracts ==
  {<<>>} \cup
  {<<[url |-> u, status |-> "completed",
      extract_config |-> [prompt |-> p,
                          enable_video_level_entities |-> TRUE,
                          enable_segment_level_entities |-> TRUE],
      total |-> t]>> :
     u \in Urls, p \in Prompts \ {Undefined}, t \in Totals}

EarlierSegmentJobs ==
  {<<>>} \cup
  {<<[url |-> u, criteria |-> "narrative", status |-> "completed",
      narrative_config |-> NarrativeConfig(p), segments |-> n]>> :
     u \in Urls, p \in Prompts, n \in SegmentCounts}

\* Segmentation jobs a camera-shot client finds: shot jobs, or the
\* chapter jobs of the same account.
EarlierShotJobs ==
  EarlierSegmentJobs \cup
  {<<[url |-> u, criteria |-> "shot", status |-> "completed",
      narrative_config |-> NarrativeConfig(Undefined), segments |-> n]>> :
     u \in {FileUrl, HttpUrl}, n \in SegmentCounts}

StoredDescriptions ==
  {{}} \cup
  {{[collection_id |-> "c1", file_id |-> extractFileIdFromUrl(FileUrl),
     duration_seconds |-> d]} : d \in Durations}

StoredEntities ==
  {{}} \cup
  {{[collection_id |-> "c1", file_id |-> extractFileIdFromUrl(FileUrl),
     entities |-> e, total |-> t]} : e \in BOOLEAN, t \in Totals}

\* The service starts with the artifacts of one kind of tool.
Init ==
  /\ request = NoRequest
  /\ calls = <<>>
  /\ envelope = NoEnvelope
  /\ pc = <<>> /\ fetchList = <<>> /\ slots = <<>> /\ settled = <<>>
  /\ \/ /\ session = "describe"
        /\ describes \in EarlierDescribes
        /\ mediaDescriptions \in StoredDescriptions
        /\ extracts = <<>> /\ collectionEntities = {}
        /\ segmentJobs = <<>>
        /\ fileCount = 0 /\ collectionVideos = 0
        /\ collectionCount = 0 /\ collectionType = "none" /\ summaryCount = 0
     \/ /\ session = "extract"
        /\ extracts \in EarlierExtracts
        /\ collectionEntities \in StoredEntities
        /\ describes = <<>> /\ mediaDescriptions = {}
        /\ segmentJobs = <<>>
        /\ fileCount = 0 /\ collectionVideos = 0
        /\ collectionCount = 0 /\ collectionType = "none" /\ summaryCount = 0
     \/ /\ session = "segment"
        /\ segmentJobs \in EarlierSegmentJobs
        /\ fileCount = 0 /\ collectionVideos = 0
        /\ collectionCount = 0 /\ collectionType = "none" /\ summaryCount = 0
        /\ describes = <<>> /\ mediaDescriptions = {}
        /\ extracts = <<>> /\ collectionEntities = {}
     \/ /\ session = "shots"
        /\ segmentJobs \in EarlierShotJobs
        /\ fileCount = 0 /\ collectionVideos = 0
        /\ collectionCount = 0 /\ collectionType = "none" /\ summaryCount = 0
        /\ describes = <<>> /\ mediaDescriptions = {}
        /\ extracts = <<>> /\ collectionEntities = {}
     \/ /\ session = "query"
        /\ segmentJobs = <<>>
        /\ fileCount = 0 /\ collectionVideos = 0 /\ collectionCount = 0
        /\ collectionType \in CollectionTypes
        /\ summaryCount \in SummaryCounts
        /\ describes = <<>> /\ mediaDescriptions = {}
        /\ extracts = <<>> /\ collectionEntities = {}
     \/ /\ session = "list"
        /\ segmentJobs = <<>>
        /\ fileCount \in Totals /\ collectionVideos \in CollectionSizes
        /\ collectionCount \in Totals
        /\ collectionType \in {"media-descriptions", "entities"}
        /\ summaryCount = 0
        /\ describes = <<>> /\ mediaDescriptions = {}
        /\ extracts = <<>> /\ collectionEntities = {}

\* The transport sends the document; nothing of the invocation is kept.
Respond ==
  /\ request # NoRequest
  /\ request' = NoRequest
  /\ calls' = <<>>
  /\ envelope' = NoEnvelope
  /\ UNCHANGED <<remote, session, stepwise>>

Next ==
  \/ DescribeVideo
  \/ ExtractVideoEntities
  \/ SegmentVideoChapters
  \/ SegmentVideoCameraShots
  \/ ListVideos
  \/ ListCollections
  \/ SearchVideoMoments
  \/ SearchVideoSummaries
  \/ GetVideoMetadata
  \/ RetrieveSummaries
  \/ Respond

Spec == Init /\ [][Next]_vars

-----------------------------------------------------------------------------
(* What the properties speak about *)

\* Some call of the invocation was the operation op.
Issued(op) == \E i \in 1..Len(calls) : calls[i].op = op

\* Some call of the invocation threw.
Threw(op) == \E i \in 1..Len(calls) : calls[i].op = op /\ ~calls[i].ok

\* The job id the first call of operation op was about or returned.
JobOf(op) == calls[CHOOSE i \in 1..Len(calls) :
                     calls[i].op = op /\ \A k \in 1..(i - 1) : calls[k].op # op].job

\* A call asked for a time range.
SlicedFetch ==
  \E i \in 1..Len(calls) :
     calls[i].op \in {"getDescribe", "getMediaDescriptions"} /\ calls[i].from >= 0

DescribeAnswered ==
  envelope.tool = "describe_video" /\ envelope.path \in {"collection", "existing", "new"}

\* The collection holds a description for the file of the request.
StoredFor(req) ==
  {m \in mediaDescriptions :
     m.collection_id = req.collection_id /\ m.file_id = extractFileIdFromUrl(req.url)}

\* duration_seconds of the artifact a describe_video answer was built from
UsedDuration ==
  IF envelope.path = "collection"
  THEN (CHOOSE m \in StoredFor(request) : TRUE).duration_seconds
  ELSE IF envelope.path = "existing"
  THEN describes[JobOf("listDescribes")].duration_seconds
  ELSE describes[JobOf("createDescribe")].duration_seconds

-----------------------------------------------------------------------------
(* C1 *)

\* C1 as claimed: with collection_id, a cloudglue://files/<id> URL and a
\* description stored in the collection for that file, describe_video answers
\* from the stored artifact, and neither lists describe jobs nor submits one.
C1_AsClaimed ==
  (/\ request.tool = "describe_video"
   /\ request.collection_id # Undefined
   /\ StoredFor(request) # {})
  => (/\ envelope.path = "collection"
      /\ ~Issued("listDescribes")
      /\ ~Issued("createDescribe"))

\* C1: with collection_id, a cloudglue://files/<id> URL and a description
\* stored in the collection for that file, and no fetch from the collection
\* throwing, describe_video answers from the stored artifact for every page and
\* start_time_seconds: its only calls are fetches from the collection, it
\* neither lists describe jobs nor submits one.
C1_CollectionAnswers ==
  (/\ request.tool = "describe_video"
   /\ request.collection_id # Undefined
   /\ StoredFor(request) # {}
   /\ ~Threw("getMediaDescriptions"))
  => (/\ envelope.path = "collection"
      /\ \A i \in 1..Len(calls) : calls[i].op = "getMediaDescriptions"
      /\ ~Issued("listDescribes")
      /\ ~Issued("createDescribe")
      /\ ~Issued("waitForReady"))

\* The case of the specification: duration 1000, page 2, start 0 asks the
\* collection for [600, 900) and reports 4 pages.
C1_Witness ==
  /\ request.tool = "describe_video"
  /\ request.collection_id # Undefined
  /\ StoredFor(request) # {}
  /\ envelope.path = "collection"
  /\ UsedDuration = 1000
  /\ request.page = 2 /\ request.start_time_seconds = 0
  /\ envelope.total_pages = 4
  /\ envelope.description = Content("collection", 0, 600, 900)
  /\ calls[Len(calls)] = Call("getMediaDescriptions", request.url, 0, 600, 900, TRUE)

-----------------------------------------------------------------------------
(* C2 *)

\* C2 as claimed: once the most recent completed extraction job for a URL is
\* one that extract_video_entities submitted for a prompt, an invocation with
\* that URL and prompt and no collection_id, whose listing and fetch do not
\* throw, reuses the job and does not call createExtract again.
C2_AsClaimed ==
  [][(/\ request'.tool = "extract_video_entities"
      /\ request'.collection_id = Undefined
      /\ request'.prompt # Undefined
      /\ ListLatest(extracts, request'.url) # <<>>
      /\ extracts[ListLatest(extracts, request'.url)[1]].extract_config
           = CreateExtractConfig(request'.prompt)
      /\ \A i \in 1..Len(calls') :
            calls'[i].op \in {"listExtracts", "getExtract"} => calls'[i].ok)
     => (/\ envelope'.path = "existing"
         /\ \A i \in 1..Len(calls') : calls'[i].op # "createExtract")]_vars

-----------------------------------------------------------------------------
(* C3 *)

\* C3 as claimed: segment_video_chapters answers with source "existing" only
\* from a job whose prompt is the prompt of the request.
C3_AsClaimed ==
  (envelope.tool = "segment_video_chapters" /\ envelope.source = "existing")
  => segmentJobs[envelope.job].narrative_config.prompt = request.prompt

-----------------------------------------------------------------------------
(* C4 *)

\* The collection step of extract_video_entities ran with a prompt and found
\* nothing, or threw.
C4_Case ==
  /\ request.tool = "extract_video_entities"
  /\ request.collection_id # Undefined
  /\ extractFileIdFromUrl(request.url) # Null
  /\ request.prompt # Undefined
  /\ \/ Threw("getEntities")
     \/ {e \in collectionEntities :
           e.collection_id = request.collection_id
           /\ e.file_id = extractFileIdFromUrl(request.url)} = {}

\* C4 as claimed: a collection lookup that finds nothing or throws falls
\* through to the prior-job check instead of ending with an error envelope.
C4_AsClaimed ==
  C4_Case => (Issued("listExtracts") /\ envelope.path \notin {"collection_miss", "collection_error"})

\* C4: in extract_video_entities with collection_id, a cloudglue://files/<id>
\* URL and a prompt, a collection lookup that finds no entities, or that
\* throws, ends the invocation with an error envelope (error field, empty
\* entities, total_pages 0); no prior-job check and no job creation follow.
C4_CollectionMissIsError ==
  C4_Case =>
    (/\ envelope.path \in {"collection_miss", "collection_error"}
     /\ envelope.error # "none"
     /\ "error" \in envelope.keys
     /\ envelope.total_pages = 0
     /\ envelope.entities = NoSegmentEntities
     /\ envelope.video_level_entities = FALSE
     /\ Len(calls) = 1 /\ calls[1].op = "getEntities"
     /\ ~Issued("listExtracts") /\ ~Issued("createExtract"))

\* The lookup returned and the collection holds nothing for the file.
C4_Witness ==
  /\ C4_Case
  /\ ~Threw("getEntities")
  /\ envelope.path = "collection_miss"
  /\ extracts # <<>>

-----------------------------------------------------------------------------
(* C5 *)

\* C5 as claimed: describe_video and extract_video_entities answer a
\* collection_id with a URL that is no cloudglue://files/<id> reference with a
\* usage error at once, without any remote call.
C5_AsClaimed ==
  (/\ request.tool \in {"describe_video", "extract_video_entities"}
   /\ request.collection_id # Undefined
   /\ extractFileIdFromUrl(request.url) = Null)
  => (calls = <<>> /\ envelope.path = "usage_error")

-----------------------------------------------------------------------------
(* C6 *)

\* C6 as claimed: in every path of describe_video an artifact without a
\* known duration is reported with total_pages = 1.
C6_AsClaimed ==
  (DescribeAnswered /\ UsedDuration = 0) => envelope.total_pages = 1

-----------------------------------------------------------------------------
(* C7 *)

\* C7 as claimed: a reused or new job without a known duration, asked for
\* page 0 from start 0, yields the whole content of the job.
C7_AsClaimed ==
  (/\ DescribeAnswered
   /\ envelope.path \in {"existing", "new"}
   /\ UsedDuration = 0
   /\ request.page = 0 /\ request.start_time_seconds = 0)
  => (/\ envelope.description.kind = "content"
      /\ envelope.description.from = -1
      /\ envelope.description.to = -1)

-----------------------------------------------------------------------------
(* C8 *)

\* C8: for a known duration D > 0, every page and start s, each of the three
\* paths of describe_video reports total_pages = ceil((D - s) / 300) when
\* D - s > 0 (the least n with 300 n >= D - s), and 1 otherwise.
C8_TotalPages ==
  (DescribeAnswered /\ UsedDuration > 0) =>
    LET rem == UsedDuration - request.start_time_seconds
        n == envelope.total_pages
    IN IF rem > 0
       THEN 300 * n >= rem /\ 300 * (n - 1) < rem
       ELSE n = 1

\* A reused job of 1000 s read from 300 s: 700 s remain, 3 pages.
C8_Witness ==
  /\ DescribeAnswered
  /\ envelope.path = "existing"
  /\ UsedDuration = 1000
  /\ request.start_time_seconds = 300
  /\ envelope.total_pages = 3

-----------------------------------------------------------------------------
(* C9 *)

\* The time range a describe_video answer covers: the range of its content,
\* the whole [0, D) when the content was not sliced.
CoveredFrom == IF envelope.description.from = -1 THEN 0 ELSE envelope.description.from

CoveredTo ==
  IF envelope.description.to = -1 THEN UsedDuration ELSE envelope.description.to

\* The answers of the tools that page by item count.
ItemsAnswered ==
  \/ envelope.tool = "extract_video_entities"
     /\ envelope.path \in {"collection", "existing", "new"}
  \/ envelope.tool = "list_videos" /\ envelope.path = "success"

\* The listing call of such an answer.
ItemsCall == calls[CHOOSE i \in 1..Len(calls) : calls[i].from >= 0]

\* The number of items the service holds for such an answer.
ItemsTotal ==
  IF envelope.tool = "list_videos"
  THEN (IF request.collection_id # Undefined THEN collectionVideos ELSE fileCount)
  ELSE IF envelope.path = "collection"
  THEN getEntities(request.collection_id, extractFileIdFromUrl(request.url)).total
  ELSE extracts[envelope.entities.id].total

\* The items of a page: those the service returns for the offset and limit asked.
ItemsOffset == IF envelope.tool = "list_videos" THEN envelope.offset ELSE envelope.entities.offset

ItemsLength == IF envelope.tool = "list_videos" THEN envelope.length ELSE envelope.entities.length

-----------------------------------------------------------------------------
(* C10 *)

\* C10 as claimed: with start_time_seconds at or beyond the duration of the
\* artifact (a duration of 0 included), every page of describe_video is the
\* empty string with total_pages = 1, and nothing is fetched for a range.
C10_AsClaimed ==
  (DescribeAnswered /\ request.start_time_seconds >= UsedDuration)
  => (/\ envelope.description = EmptyString
      /\ envelope.total_pages = 1
      /\ ~SlicedFetch)

-----------------------------------------------------------------------------
(* C11 *)

\* The answer was read with a fetch for a time range.
RangeFetched ==
  \E i \in 1..Len(calls) :
     /\ calls[i].op \in {"getDescribe", "getMediaDescriptions"}
     /\ calls[i].from >= 0
     /\ calls[i].ok

\* C11: in describe_video with a known duration D > 0 and a start s < D,
\* page p carries the content of a non-empty range exactly when
\* p < total_pages; a page at or beyond total_pages is the empty string and
\* nothing is fetched for it.  So the pages 0 .. total_pages - 1 are the
\* non-empty ones, and they are those a caller visits who goes on while
\* page < total_pages - 1.
C11_NonEmptyIffBelowTotal ==
  (/\ DescribeAnswered
   /\ UsedDuration > 0
   /\ request.start_time_seconds < UsedDuration)
  => LET p == request.page
         n == envelope.total_pages
         nonEmpty == /\ envelope.description.kind = "content"
                     /\ CoveredFrom < CoveredTo
     IN /\ n >= 1
        /\ (p < n) <=> nonEmpty
        /\ (p < n) <=> (request.start_time_seconds + 300 * p < UsedDuration)
        /\ (p >= n) => (envelope.description = EmptyString /\ ~RangeFetched)

\* Page 2 of a stored description of 301 s, which has 2 pages: empty.
C11_Witness ==
  /\ DescribeAnswered
  /\ envelope.path = "collection"
  /\ UsedDuration = 301
  /\ request.start_time_seconds = 0
  /\ request.page = 2
  /\ envelope.total_pages = 2
  /\ envelope.description = EmptyString

-----------------------------------------------------------------------------
(* C12 *)

\* C12 as claimed: whichever branch of describe_video answers, for a
\* duration D (0 when absent), a start s and a page p, total_pages is the
\* value Step 1 computes from D and s, the page is empty exactly when
\* s >= D or s + 300 p >= D, and otherwise its content covers
\* [s + 300 p, min(s + 300 (p + 1), D)).
C12_AsClaimed ==
  DescribeAnswered =>
    LET s == request.start_time_seconds
        p == request.page
        D == UsedDuration
    IN /\ envelope.total_pages = TotalPages(RemainingDuration(D, s))
       /\ IF s >= D \/ s + 300 * p >= D
          THEN envelope.description = EmptyString
          ELSE /\ envelope.description.kind = "content"
               /\ CoveredFrom = s + 300 * p
               /\ CoveredTo = Min(s + 300 * (p + 1), D)

-----------------------------------------------------------------------------
(* C13 *)

\* The number of calls of the invocation that were the operation op.
CallCount(op) == Cardinality({i \in 1..Len(calls) : calls[i].op = op})

\* extract_video_entities ran without collection_id and its listing
\* returned a completed job for the URL whose prompt is not the requested one.
C13_Case ==
  /\ envelope.tool = "extract_video_entities"
  /\ request.collection_id = Undefined
  /\ Issued("listExtracts")
  /\ ~Threw("listExtracts")
  /\ JobOf("listExtracts") > 0
  /\ extracts[JobOf("listExtracts")].url = request.url
  /\ extracts[JobOf("listExtracts")].extract_config.prompt # request.prompt

\* C13: in extract_video_entities without collection_id, when the most
\* recent completed job for the exact URL has another prompt than the
\* requested one, nothing is read from that job and the invocation goes on to
\* create: it calls createExtract exactly once, and the job it submits is a
\* new one for the URL carrying the requested prompt.
C13_DifferentPromptNotReused ==
  C13_Case =>
    /\ CallCount("createExtract") = 1
    /\ envelope.path \in {"new", "failure"}
    /\ \A i \in 1..Len(calls) :
         calls[i].op = "getExtract" => calls[i].job # JobOf("listExtracts")
    /\ ~Threw("createExtract") =>
         LET created == JobOf("createExtract")
         IN /\ created = Len(extracts)
            /\ created > JobOf("listExtracts")
            /\ extracts[created].url = request.url
            /\ extracts[created].extract_config.prompt = request.prompt

\* A job with prompt p1 exists; p2 is asked and a second job is created.
C13_Witness ==
  /\ C13_Case
  /\ extracts[JobOf("listExtracts")].extract_config.prompt = "p1"
  /\ request.prompt = "p2"
  /\ envelope.path = "new"
  /\ Len(extracts) = 2
  /\ extracts[2].extract_config.prompt = "p2"

-----------------------------------------------------------------------------
(* C14 *)

\* C14: extract_video_entities called with neither prompt nor collection_id
\* returns a document with video_level_entities {} (no entities),
\* segment_level_entities {entities: [], page, total_pages: 0} and an error
\* field, and issues no remote call at all.
C14_UsageErrorWithoutCalls ==
  (/\ envelope.tool = "extract_video_entities"
   /\ request.collection_id = Undefined
   /\ request.prompt = Undefined)
  => /\ calls = <<>>
     /\ envelope.video_level_entities = FALSE
     /\ envelope.entities = NoSegmentEntities
     /\ envelope.entities.length = 0
     /\ envelope.page = request.page
     /\ envelope.total_pages = 0
     /\ "error" \in envelope.keys
     /\ envelope.error # "none"

\* Page 2 asked with neither argument while the service holds a completed
\* extraction for the URL.
C14_Witness ==
  /\ envelope.tool = "extract_video_entities"
  /\ request.collection_id = Undefined
  /\ request.prompt = Undefined
  /\ request.page = 2
  /\ envelope.path = "usage_error"
  /\ CompletedFor(extracts, request.url) # {}

-----------------------------------------------------------------------------
(* C15 *)

\* C15: segment_video_camera_shots given a YouTube URL (youtube.com or
\* youtu.be) returns its usage-error document (error set, segments null,
\* total_shots 0) and issues no remote call: it neither lists shot jobs nor
\* submits one.
C15_YouTubeRejected ==
  (/\ envelope.tool = "segment_video_camera_shots"
   /\ request.url \in {YouTubeUrl, ShortYouTubeUrl})
  => /\ calls = <<>>
     /\ envelope.path = "usage_error"
     /\ "error" \in envelope.keys
     /\ envelope.error # "none"
     /\ envelope.total_shots = 0
     /\ envelope.job = 0

\* The short host name is rejected while the service holds segmentation jobs.
C15_Witness ==
  /\ envelope.tool = "segment_video_camera_shots"
  /\ request.url = ShortYouTubeUrl
  /\ envelope.path = "usage_error"
  /\ calls = <<>>
  /\ segmentJobs # <<>>

-----------------------------------------------------------------------------
(* C16 *)

\* The tools whose reuse checks are wrapped in a try that swallows.
SwallowingTool ==
  envelope.tool \in {"describe_video", "segment_video_camera_shots",
                     "segment_video_chapters"}

\* The operation that submits a job, for the tool that answered.
CreateOp ==
  IF envelope.tool = "describe_video" THEN "createDescribe" ELSE "createSegmentJob"

\* Call i belongs to a reuse check: the collection lookup, the listing of
\* prior jobs, or the fetch of the listed job (a getDescribe after the
\* submission reads the new job).
ReuseCheck(i) ==
  \/ calls[i].op \in {"getMediaDescriptions", "listDescribes",
                      "listSegmentJobs", "getSegmentJob"}
  \/ /\ calls[i].op = "getDescribe"
     /\ \A k \in 1..(i - 1) : calls[k].op # "createDescribe"

\* The job the invocation submitted.
CreatedJob ==
  IF envelope.tool = "describe_video"
  THEN describes[JobOf("createDescribe")]
  ELSE segmentJobs[JobOf("createSegmentJob")]

\* The creation step of the invocation failed: the submission or the wait
\* threw, the job ended otherwise than completed, or the read of the new
\* job's content threw.
CreationFailed ==
  /\ Issued(CreateOp)
  /\ \/ Threw(CreateOp)
     \/ Threw("waitForReady")
     \/ \E i \in 1..Len(calls) : ~calls[i].ok /\ ~ReuseCheck(i)
     \/ CreatedJob.status # "completed"

-----------------------------------------------------------------------------
(* C17 *)

\* The tools that create jobs.
ContentTool ==
  envelope.tool \in {"describe_video", "extract_video_entities",
                     "segment_video_chapters", "segment_video_camera_shots"}

\* The submitting operation of the content tool that answered.
SubmitOp ==
  IF envelope.tool = "describe_video" THEN "createDescribe"
  ELSE IF envelope.tool = "extract_video_entities" THEN "createExtract"
  ELSE "createSegmentJob"

\* The store the content tool that answered submits to.
SubmitStore ==
  IF envelope.tool = "describe_video" THEN describes
  ELSE IF envelope.tool = "extract_video_entities" THEN extracts
  ELSE segmentJobs

\* Position of the submission among the calls of the invocation.
SubmitIndex == CHOOSE i \in 1..Len(calls) : calls[i].op = SubmitOp

\* C17: an invocation of a content tool submits at most one job.  A
\* submission that throws is the last remote call of the invocation (no
\* poll, no fetch, no second submission) and the document is the failure
\* document; a job whose wait throws or that ends otherwise than completed
\* is not fetched and not resubmitted, and the document is the failure
\* document.
C17_AtMostOneSubmission ==
  ContentTool =>
    /\ CallCount(SubmitOp) <= 1
    /\ Threw(SubmitOp) =>
         /\ SubmitIndex = Len(calls)
         /\ ~Issued("waitForReady")
         /\ envelope.path = "failure"
    /\ (Issued(SubmitOp) /\ ~Threw(SubmitOp)) =>
         /\ JobOf(SubmitOp) = Len(SubmitStore)
         /\ SubmitStore[JobOf(SubmitOp)].url = request.url
         /\ SubmitIndex + 1 <= Len(calls)
         /\ calls[SubmitIndex + 1].op = "waitForReady"
         /\ (Threw("waitForReady") \/ SubmitStore[JobOf(SubmitOp)].status # "completed")
              => /\ SubmitIndex + 1 = Len(calls)
                 /\ envelope.path = "failure"

\* The listed extraction has another prompt, and the submission throws.
C17_Witness ==
  /\ envelope.tool = "extract_video_entities"
  /\ Issued("listExtracts")
  /\ JobOf("listExtracts") > 0
  /\ Threw("createExtract")
  /\ calls[Len(calls)].op = "createExtract"
  /\ envelope.path = "failure"

-----------------------------------------------------------------------------
(* C18 *)

\* The message of a failure document: describe_video puts it in
\* `description`, the other tools in `error`.
FailureMessage ==
  IF envelope.tool = "describe_video" THEN envelope.description.kind ELSE envelope.error

\* The count field of a document.
ReportedTotal ==
  IF envelope.tool \in {"describe_video", "extract_video_entities"}
  THEN envelope.total_pages
  ELSE IF envelope.tool = "segment_video_chapters" THEN envelope.total_chapters
  ELSE envelope.total_shots

\* The messages of the return statement after the wait.
DidNotCompleteMessages ==
  {"Error: Failed to create description", "Failed to create entity extraction",
   "Failed to create chapter segmentation", "Failed to create camera shot segmentation"}

\* The wait returned a job that is not completed.
EndedNotCompleted ==
  /\ ContentTool
  /\ Issued(SubmitOp) /\ ~Threw(SubmitOp)
  /\ Issued("waitForReady") /\ ~Threw("waitForReady")
  /\ SubmitStore[JobOf(SubmitOp)].status # "completed"

\* C18: when the awaited job ends in a state other than completed, the
\* content tool returns the "did not complete successfully" document with
\* a count of 0 and reads no result of that job (the wait is its last
\* remote call); the document returned when a call of the creation step
\* throws carries another message, so the two outcomes can be told apart.
C18_DidNotCompleteIsDistinct ==
  /\ EndedNotCompleted =>
       /\ envelope.path = "failure"
       /\ FailureMessage \in DidNotCompleteMessages
       /\ ReportedTotal = 0
       /\ calls[Len(calls)].op = "waitForReady"
  /\ (ContentTool /\ envelope.path = "failure" /\ ~calls[Len(calls)].ok) =>
       /\ FailureMessage \notin DidNotCompleteMessages
       /\ ReportedTotal = 0

\* A camera-shot job that fails after a listing that found nothing.
C18_Witness ==
  /\ envelope.tool = "segment_video_camera_shots"
  /\ request.url = HttpUrl
  /\ EndedNotCompleted
  /\ envelope.error = "Failed to create camera shot segmentation"
  /\ segmentJobs[Len(segmentJobs)].status = "failed"

-----------------------------------------------------------------------------
(* C19 *)

\* The document is one of the failure documents of a tool.
FailureEnvelope ==
  envelope.path \in {"failure", "usage_error", "collection_miss",
                     "collection_error", "incomplete"}

\* The top-level keys of the success document of the tool that answered,
\* for the same arguments.
SuccessKeys ==
  IF envelope.tool = "describe_video"
  THEN formatPaginatedResponse("new", EmptyString, 0, 1).keys
  ELSE IF envelope.tool = "extract_video_entities"
  THEN formatPaginatedEntityResponse("new", TRUE, NoSegmentEntities, 0, 1).keys
  ELSE IF envelope.tool = "segment_video_chapters"
  THEN ChaptersResponse("new", request, 0, 0).keys
  ELSE IF envelope.tool = "segment_video_camera_shots"
  THEN ShotsResponse("new", request, 0, 0).keys
  ELSE IF envelope.tool = "search_video_moments"
  THEN SearchResponse("search_video_moments", "moments_found", request, 0).keys
  ELSE IF envelope.tool = "search_video_summaries"
  THEN SearchResponse("search_video_summaries", "videos_found", request, 0).keys
  ELSE IF envelope.tool = "get_video_metadata"
  THEN MetadataResponse(request).keys
  ELSE SummariesResponse(request, <<>>, 1).keys

\* C19 as claimed: every failure document of a tool has every top-level key
\* of that tool's success document.
C19_AsClaimed ==
  FailureEnvelope => SuccessKeys \subseteq envelope.keys

-----------------------------------------------------------------------------
(* C20 *)

\* C20 as claimed: whatever remote call throws, the handler of every tool
\* returns a document; no invocation ends with the exception leaving the
\* handler.
C20_AsClaimed ==
  request # NoRequest => envelope.path # "exception"

-----------------------------------------------------------------------------
(* C21 *)

\* The payload of a document of a content tool is empty: no description
\* text, no entities, no chapters, no shots.
EmptyPayload ==
  IF envelope.tool = "describe_video" THEN envelope.description = EmptyString
  ELSE IF envelope.tool = "extract_video_entities"
  THEN envelope.video_level_entities = FALSE /\ envelope.entities.length = 0
  ELSE IF envelope.tool = "segment_video_chapters" THEN envelope.total_chapters = 0
  ELSE envelope.total_shots = 0

\* C21 as claimed: every failure document of a content tool has an `error`
\* field and an empty payload; a describe_video invocation whose submission
\* throws or whose job does not complete returns a document with an `error`
\* field and an empty description.
C21_AsClaimed ==
  (ContentTool /\ FailureEnvelope) =>
    /\ "error" \in envelope.keys
    /\ EmptyPayload

-----------------------------------------------------------------------------
(* C22 *)

\* The tools whose documents carry page and total_pages.
PaginatedTool ==
  envelope.tool \in {"describe_video", "extract_video_entities",
                     "list_collections", "list_videos", "retrieve_summaries"}

\* The document is a success document.
SuccessEnvelope ==
  envelope.path \in {"collection", "existing", "new", "success"}

\* C22 as claimed: a success document of a paginated tool reports a finite
\* integer total_pages >= 1 (never the null of a non-finite number), and a
\* document with total_pages = 0 is a failure document.
C22_AsClaimed ==
  PaginatedTool =>
    /\ SuccessEnvelope =>
         (envelope.total_pages # JsonNull /\ envelope.total_pages >= 1)
    /\ (envelope.path # "exception" /\ envelope.total_pages = 0) => FailureEnvelope

-----------------------------------------------------------------------------
(* C23 *)

\* The segmentation tools.
SegmentTool ==
  envelope.tool \in {"segment_video_chapters", "segment_video_camera_shots"}

\* The criteria the segmentation tool that answered works with.
CriteriaOfTool ==
  IF envelope.tool = "segment_video_chapters" THEN "narrative" ELSE "shot"

\* The result came from a job that existed before the invocation: the
\* listing returned it, it was fetched, and nothing was submitted.
FromPriorJob ==
  /\ ~Issued("createSegmentJob")
  /\ Issued("listSegmentJobs") /\ ~Threw("listSegmentJobs")
  /\ Issued("getSegmentJob") /\ ~Threw("getSegmentJob")
  /\ envelope.job = JobOf("listSegmentJobs")
  /\ envelope.job = JobOf("getSegmentJob")

\* The result came from the job this invocation submitted.
FromSubmittedJob ==
  /\ Issued("createSegmentJob") /\ ~Threw("createSegmentJob")
  /\ Issued("waitForReady") /\ ~Threw("waitForReady")
  /\ envelope.job = JobOf("createSegmentJob")
  /\ envelope.job = Len(segmentJobs)

\* C23: a success document of segment_video_camera_shots or
\* segment_video_chapters has source "existing" exactly when its result is
\* that of a job listed and fetched by the invocation, which submitted
\* nothing, and source "new" exactly when its result is that of the job the
\* invocation submitted; the result is the segments of that job, a completed
\* job of the tool's criteria for the requested URL.
C23_SourceTellsOrigin ==
  (SegmentTool /\ SuccessEnvelope) =>
    /\ envelope.source \in {"existing", "new"}
    /\ (envelope.source = "existing") <=> FromPriorJob
    /\ (envelope.source = "new") <=> FromSubmittedJob
    /\ envelope.job \in 1..Len(segmentJobs)
    /\ segmentJobs[envelope.job].url = request.url
    /\ segmentJobs[envelope.job].criteria = CriteriaOfTool
    /\ segmentJobs[envelope.job].status = "completed"
    /\ ReportedTotal = segmentJobs[envelope.job].segments

\* The shots of a job an earlier invocation created are returned as existing.
C23_Witness ==
  /\ envelope.tool = "segment_video_camera_shots"
  /\ envelope.source = "existing"
  /\ FromPriorJob
  /\ envelope.job = 2
  /\ envelope.total_shots = 2

-----------------------------------------------------------------------------
(* C24 *)

\* The tools that reuse by URL alone.
ReusingTools ==
  {"describe_video", "segment_video_camera_shots", "segment_video_chapters"}

\* What the listing of a tool returns for a URL in the current state of
\* the service: the most recent completed job of the tool's kind, if any.
ListedFor(tool, url) ==
  IF tool = "describe_video" THEN ListLatest(describes, url)
  ELSE ListLatestSegmentJob(IF tool = "segment_video_chapters"
                            THEN "narrative" ELSE "shot", url)

\* The step is an invocation of a reusing tool for a URL of which the
\* service holds a completed job, and the listing of the invocation returned.
C24_Case ==
  /\ request = NoRequest
  /\ request'.tool \in ReusingTools
  /\ ListedFor(request'.tool, request'.url) # <<>>
  /\ \E i \in 1..Len(calls') :
        calls'[i].op \in {"listDescribes", "listSegmentJobs"} /\ calls'[i].ok

\* The step submitted no job and answered from the listed job.
C24_Reused ==
  /\ describes' = describes
  /\ segmentJobs' = segmentJobs
  /\ \A i \in 1..Len(calls') :
        calls'[i].op \notin {"createDescribe", "createSegmentJob"}
  /\ envelope'.path = "existing"

-----------------------------------------------------------------------------
(* C25 *)

\* The remote operations of the resolver steps of the content tools.
CollectionOps == {"getMediaDescriptions", "getEntities"}

ListOps == {"listDescribes", "listExtracts", "listSegmentJobs"}

SubmitOps == {"createDescribe", "createExtract", "createSegmentJob"}

\* C25: in an invocation of a content tool every remote call is about the
\* requested URL; every collection lookup comes before the listing of prior
\* jobs; a job is submitted only after the listing of prior jobs for the URL
\* was attempted, and then nothing is answered from a prior job (the listing
\* ended in a miss or a failure); waitForReady is called only directly after
\* a submission that returned, for the job id it returned.
C25_PriorityOrder ==
  ContentTool =>
    /\ \A i \in 1..Len(calls) : calls[i].url = request.url
    /\ \A i, j \in 1..Len(calls) :
         (calls[i].op \in CollectionOps /\ calls[j].op \in ListOps) => i < j
    /\ \A i, j \in 1..Len(calls) :
         (calls[i].op \in CollectionOps /\ calls[j].op \in SubmitOps) => i < j
    /\ \A j \in 1..Len(calls) :
         calls[j].op \in SubmitOps =>
            /\ calls[j].op = SubmitOp
            /\ \E i \in 1..(j - 1) : calls[i].op \in ListOps
            /\ envelope.path \in {"new", "failure"}
    /\ \A k \in 1..Len(calls) :
         calls[k].op = "waitForReady" =>
            /\ k > 1
            /\ calls[k - 1].op = SubmitOp
            /\ calls[k - 1].ok
            /\ calls[k - 1].job > 0
            /\ calls[k].job = calls[k - 1].job

\* describe_video goes through the three steps: the collection has nothing
\* for the file, no prior job is listed, a job is created, awaited and read.
C25_Witness ==
  /\ envelope.tool = "describe_video"
  /\ Len(calls) = 5
  /\ calls[1].op = "getMediaDescriptions" /\ calls[1].ok
  /\ calls[2].op = "listDescribes" /\ calls[2].ok /\ calls[2].job = 0
  /\ calls[3].op = "createDescribe" /\ calls[3].ok
  /\ calls[4].op = "waitForReady" /\ calls[4].ok
  /\ calls[5].op = "getDescribe" /\ calls[5].ok
  /\ envelope.path = "new"

(***************************************************************************)
(* list_collections and list_videos with a collection_id, seen step by     *)
(* step: the listing call, the per-item detail fetches that Promise.all    *)
(* awaits, and the return.  pc[0] is the handler, pc[i] the map callback   *)
(* of the i-th listed element.                                             *)
(***************************************************************************)

MaxItems == 3

ItemIds == {"i1", "i2", "i3", "i4"}

FetchTools == {"list_collections", "list_videos"}

\* Sequences of distinct items a listing call can return.
Listings == {s \in UNION {[1..n -> ItemIds] : n \in 0..MaxItems} : \A i, j \in DOMAIN s : s[i] = s[j] => i = j}

\* What the service holds for an item: the number of completed videos of
\* a collection, the file behind a collection video.
CompletedIn(collectionId) == CASE collectionId = "i1" -> 2 [] collectionId = "i2" -> 0 [] collectionId = "i3" -> 5 [] OTHER -> 1

FileInfo(fileId) == [id |-> fileId, filename |-> <<"name of", fileId>>]

CollectionVideo(fileId) == [file_id |-> fileId, added_at |-> <<"added", fileId>>]

\* The element a listing returns for an item.
ListedElement(tool, item) == IF tool = "list_collections" THEN [id |-> item] ELSE CollectionVideo(item)

\* The map callbacks, from the response of their detail fetch on.
ProcessedCollection(collection, completedVideoCount) == [id |-> collection.id, completed_video_count |-> completedVideoCount]

ProcessedVideo(video, fileInfo) == [id |-> fileInfo.id, filename |-> fileInfo.filename, added_at |-> video.added_at]

Processed(tool, element) ==
  IF tool = "list_collections"
  THEN ProcessedCollection(element, CompletedIn(element.id))
  ELSE ProcessedVideo(element, FileInfo(element.file_id))

Pending == [state |-> "pending"]

\* Slip: the values are kept in the order the promises settle.
StoreResult_Push(i, value) == [slots EXCEPT ![Len(settled) + 1] = value]

\* Promise.all keeps the value of the i-th promise in the i-th place.
StoreResult(i, value) == [slots EXCEPT ![i] = value]

FetchIndexes == 1..Len(fetchList)

PromiseAllInit ==
  /\ describes = <<>> /\ extracts = <<>> /\ segmentJobs = <<>>
  /\ mediaDescriptions = {} /\ collectionEntities = {}
  /\ fileCount = 0 /\ collectionVideos = 0 /\ collectionCount = 0
  /\ collectionType = "none" /\ summaryCount = 0
  /\ session = "list"
  /\ request \in [tool : FetchTools]
  /\ calls = <<>>
  /\ envelope = NoEnvelope
  /\ pc = [p \in {0} |-> "listing"]
  /\ fetchList = <<>> /\ slots = <<>> /\ settled = <<>>

\* The listing call returns; map starts one callback per element and every
\* callback issues its fetch before the handler gets control back.
ListingReturns ==
  /\ pc[0] = "listing"
  /\ \E items \in Listings :
       /\ fetchList' = [i \in DOMAIN items |-> ListedElement(request.tool, items[i])]
       /\ slots' = [i \in DOMAIN items |-> Pending]
       /\ pc' = [p \in 0..Len(items) |-> IF p = 0 THEN "awaiting" ELSE "pending"]
  /\ UNCHANGED <<remote, request, calls, envelope, settled>>

\* The listing call throws: nothing catches it.
ListingThrows ==
  /\ pc[0] = "listing"
  /\ pc' = [pc EXCEPT ![0] = "rejected"]
  /\ envelope' = Rejected(request)
  /\ UNCHANGED <<remote, request, calls, fetchList, slots, settled>>

\* The detail fetch of the i-th element returns, in any order.
FetchResolves ==
  \E i \in FetchIndexes :
    /\ pc[i] = "pending"
    /\ pc' = [pc EXCEPT ![i] = "fulfilled"]
    /\ slots' = StoreResult(i, Processed(request.tool, fetchList[i]))
    /\ settled' = Append(settled, i)
    /\ UNCHANGED <<remote, request, calls, envelope, fetchList>>

\* The detail fetch of the i-th element throws: Promise.all rejects with
\* the first rejection and the handler rejects with it.
FetchRejects ==
  \E i \in FetchIndexes :
    /\ pc[i] = "pending"
    /\ pc' = [pc EXCEPT ![i] = "rejected", ![0] = IF @ = "awaiting" THEN "rejected" ELSE @]
    /\ envelope' = IF pc[0] = "awaiting" THEN Rejected(request) ELSE envelope
    /\ settled' = Append(settled, i)
    /\ UNCHANGED <<remote, request, calls, fetchList, slots>>

\* Every fetch is fulfilled: the handler returns the array.
PromiseAllResolves ==
  /\ pc[0] = "awaiting"
  /\ \A i \in FetchIndexes : pc[i] = "fulfilled"
  /\ pc' = [pc EXCEPT ![0] = "returned"]
  /\ envelope' = [tool |-> request.tool, path |-> "success", items |-> slots]
  /\ UNCHANGED <<remote, request, calls, fetchList, slots, settled>>

PromiseAllNext ==
  \/ ListingReturns
  \/ ListingThrows
  \/ FetchResolves
  \/ FetchRejects
  \/ PromiseAllResolves

PromiseAllSpec == PromiseAllInit /\ [][PromiseAllNext]_vars

\* The settlement order differs from the order of the listing.
OutOfOrder == \E i, j \in DOMAIN settled : i < j /\ settled[i] > settled[j]

\* The element of the output that belongs to a listed element, said from
\* the service's data.
Corresponding(tool, element) ==
  IF tool = "list_collections"
  THEN [id |-> element.id, completed_video_count |-> CompletedIn(element.id)]
  ELSE [id |-> element.file_id, filename |-> FileInfo(element.file_id).filename, added_at |-> element.added_at]

\* C26: in list_collections and list_videos with a collection_id every
\* detail fetch is in flight before any of them settles, and whatever the
\* order the fetches complete in, the i-th element of the returned list is
\* the one that corresponds to the i-th element of the listing.
C26_OutputInListingOrder ==
  /\ (pc[0] = "awaiting" /\ settled = <<>>) => \A i \in FetchIndexes : pc[i] = "pending"
  /\ pc[0] = "returned" =>
       /\ Len(envelope.items) = Len(fetchList)
       /\ \A i \in FetchIndexes : envelope.items[i] = Corresponding(request.tool, fetchList[i])

C26_Witness ==
  /\ pc[0] = "returned"
  /\ Len(fetchList) = MaxItems
  /\ OutOfOrder

(***************************************************************************)
(* One invocation of a tool seen await by await: pc[0] is the remote call  *)
(* the handler is suspended on, slots keeps how each call it made ended.   *)
(* What the service answers is left open, so every path through a handler  *)
(* is a behaviour.                                                         *)
(***************************************************************************)

AllTools == {"describe_video", "extract_video_entities", "segment_video_chapters", "segment_video_camera_shots", "list_videos", "list_collections", "search_video_moments", "search_video_summaries", "get_video_metadata", "retrieve_summaries"}

\* The create call of a tool that submits jobs.
SubmitPosition(tool) ==
  CASE tool = "describe_video" -> "createDescribe"
    [] tool = "extract_video_entities" -> "createExtract"
    [] OTHER -> "createSegmentJob"

\* Slip: a job that did not complete is submitted again.
AfterWaitReturns_Retry(tool) == {"returned", SubmitPosition(tool)}

\* Where a handler goes when waitForReady returned a job.
AfterWaitReturns(tool) ==
  CASE tool = "describe_video" -> {"returned", "getDescribe of new job"}
    [] tool = "extract_video_entities" -> {"returned", "getExtract of new job"}
    [] OTHER -> {"returned"}

\* The first await of a handler, or its return when the arguments are
\* refused before any call.
Entry(tool) ==
  CASE tool = "describe_video" -> {"getMediaDescriptions", "listDescribes"}
    [] tool = "extract_video_entities" -> {"returned", "getEntities", "listExtracts"}
    [] tool = "segment_video_chapters" -> {"listSegmentJobs"}
    [] tool = "segment_video_camera_shots" -> {"returned", "listSegmentJobs"}
    [] tool = "list_videos" -> {"listVideos", "listFiles"}
    [] tool = "list_collections" -> {"listCollections"}
    [] tool = "get_video_metadata" -> {"getFile"}
    [] tool = "retrieve_summaries" -> {"getCollection"}
    [] OTHER -> {"searchContent"}

\* Where a handler goes when the call it awaits returns.
AfterReturns(tool, position) ==
  CASE position = "waitForReady" -> AfterWaitReturns(tool)
    [] position \in {"createDescribe", "createExtract", "createSegmentJob"} -> {"waitForReady"}
    [] position = "getMediaDescriptions" -> {"returned", "getMediaDescriptions of page", "listDescribes"}
    [] position = "listDescribes" -> {"returned", "getDescribe", "createDescribe"}
    [] position = "listExtracts" -> {"getExtract", "createExtract"}
    [] position = "listSegmentJobs" -> {"getSegmentJob", "createSegmentJob"}
    [] position = "getSegmentJob" -> {"returned", "createSegmentJob"}
    [] position = "listVideos" /\ tool = "list_videos" -> {"all of getFile"}
    [] position = "listCollections" -> {"all of listVideos"}
    [] position = "getCollection" -> {"returned", "listRichTranscripts", "listMediaDescriptions"}
    [] OTHER -> {"returned"}

\* Where a handler goes when the call it awaits throws: into the next
\* step where a catch swallows it, to the return otherwise.
AfterThrows(tool, position) ==
  CASE position \in {"getMediaDescriptions", "getMediaDescriptions of page"} -> "listDescribes"
    [] position \in {"listDescribes", "getDescribe"} -> "createDescribe"
    [] position \in {"listExtracts", "getExtract"} -> "createExtract"
    [] position \in {"listSegmentJobs", "getSegmentJob"} -> "createSegmentJob"
    [] OTHER -> "returned"

NoOutcomes == [op \in {} |-> "none"]

Outcome(op, how) == [o \in {op} |-> how]

StepInit ==
  /\ describes = <<>> /\ extracts = <<>> /\ segmentJobs = <<>>
  /\ mediaDescriptions = {} /\ collectionEntities = {}
  /\ fileCount = 0 /\ collectionVideos = 0 /\ collectionCount = 0
  /\ collectionType = "none" /\ summaryCount = 0
  /\ session = "any"
  /\ request \in [tool : AllTools]
  /\ calls = <<>>
  /\ envelope = NoEnvelope
  /\ pc = [p \in {0} |-> "start"]
  /\ fetchList = <<>> /\ slots = NoOutcomes /\ settled = <<>>

\* The handler runs up to its first await.
HandlerStarts ==
  /\ pc[0] = "start"
  /\ \E position \in Entry(request.tool) : pc' = [pc EXCEPT ![0] = position]
  /\ UNCHANGED <<remote, request, calls, envelope, fetchList, slots, settled>>

\* The awaited call returns.
CallReturns ==
  /\ pc[0] \notin {"start", "returned", "waitForReady"}
  /\ \E position \in AfterReturns(request.tool, pc[0]) : pc' = [pc EXCEPT ![0] = position]
  /\ slots' = Outcome(pc[0], "returned") @@ slots
  /\ UNCHANGED <<remote, request, calls, envelope, fetchList, settled>>

\* The awaited call throws.
CallThrows ==
  /\ pc[0] \notin {"start", "returned", "waitForReady"}
  /\ pc' = [pc EXCEPT ![0] = AfterThrows(request.tool, pc[0])]
  /\ slots' = Outcome(pc[0], "threw") @@ slots
  /\ UNCHANGED <<remote, request, calls, envelope, fetchList, settled>>

\* waitForReady returns the job, completed or not.
WaitReturns ==
  /\ pc[0] = "waitForReady"
  /\ \E position \in AfterReturns(request.tool, pc[0]) : pc' = [pc EXCEPT ![0] = position]
  /\ slots' = Outcome(pc[0], "returned") @@ slots
  /\ UNCHANGED <<remote, request, calls, envelope, fetchList, settled>>

\* waitForReady gives up and throws.
WaitExpires ==
  /\ pc[0] = "waitForReady"
  /\ pc' = [pc EXCEPT ![0] = AfterThrows(request.tool, pc[0])]
  /\ slots' = Outcome(pc[0], "threw") @@ slots
  /\ UNCHANGED <<remote, request, calls, envelope, fetchList, settled>>

StepNext ==
  \/ HandlerStarts
  \/ CallReturns
  \/ CallThrows
  \/ WaitReturns
  \/ WaitExpires

\* Every remote call eventually returns or throws; the job eventually
\* reaches a terminal state or the wait expires.
StepFairness ==
  /\ WF_vars(HandlerStarts)
  /\ WF_vars(CallReturns \/ CallThrows)
  /\ WF_vars(WaitReturns \/ WaitExpires)

StepSpec == StepInit /\ [][StepNext]_vars /\ StepFairness

\* C27: every invocation of a tool returns after finitely many steps when
\* every remote call settles and the wait on a job ends; no handler waits
\* on a job a second time.
C27_EveryInvocationReturns == (pc[0] = "start") ~> (pc[0] = "returned")

C27_Witness ==
  /\ pc[0] = "returned"
  /\ "waitForReady" \in DOMAIN slots
  /\ slots["waitForReady"] = "threw"

-----------------------------------------------------------------------------
(* C28 *)

\* retrieve_summaries answered with its success document.
SummariesAnswered ==
  /\ request # NoRequest
  /\ request.tool = "retrieve_summaries"
  /\ envelope.path = "success"

\* The summaries of the collection that match the date filters of the
\* request, in the order of the collection.
MatchingSummaries ==
  LET Keep(i) == KeptByDates(i, request.created_after, request.created_before)
  IN SelectSeq([i \in 1..summaryCount |-> i], Keep)

\* C28 as claimed: for a collection holding N summaries that match the
\* date filters, page p of retrieve_summaries holds the summaries
\* 25p+1 .. 25p+25 of the N in source order and total_pages is
\* max(1, ceil(N / 25)), so that the pages 0 .. total_pages-1 return each
\* of the N summaries exactly once.
C28_AsClaimed ==
  SummariesAnswered =>
    /\ envelope.total_pages = Max(1, CeilDiv(Len(MatchingSummaries), SUMMARIES_PER_PAGE))
    /\ envelope.summaries = Slice(MatchingSummaries, Offset(request.page, SUMMARIES_PER_PAGE), SUMMARIES_PER_PAGE)

-----------------------------------------------------------------------------
(* C29 *)

\* retrieve_summaries read a collection whose type it does not support.
C29_Case ==
  /\ request # NoRequest
  /\ request.tool = "retrieve_summaries"
  /\ \E i \in DOMAIN calls : calls[i].op = "getCollection" /\ calls[i].ok
  /\ collectionType \notin {"none", "rich-transcripts", "media-descriptions"}

\* C29: retrieve_summaries on a collection whose type is neither
\* rich-transcripts nor media-descriptions returns an error document (an
\* error, no summaries, total_pages 0, the type of the collection echoed):
\* it does not throw and lists no descriptions.
C29_UnsupportedTypeIsTypedError ==
  C29_Case =>
    /\ envelope.path = "failure"
    /\ {"error", "summaries", "total_pages", "collection_type"} \subseteq envelope.keys
    /\ envelope.error = "Collection type is not supported"
    /\ envelope.summaries = <<>>
    /\ envelope.total_pages = 0
    /\ envelope.collection_type = collectionType
    /\ \A i \in DOMAIN calls : calls[i].op \notin {"listRichTranscripts", "listMediaDescriptions"}

C29_Witness ==
  /\ C29_Case
  /\ collectionType = "entities"
  /\ summaryCount > 0
  /\ envelope.path = "failure"

-----------------------------------------------------------------------------
(* C30 *)

\* The first and the last instant of the UTC day a date argument names.
StartOfDay(date) == TicksPerDay * DayNumber(date)

EndOfDay(date) == TicksPerDay * DayNumber(date) + TicksPerDay - 1

\* An item passes the date filters of the request, as the claim says it.
PassesDates(i) ==
  /\ request.created_after # Undefined => DescriptionDate(i) > StartOfDay(request.created_after)
  /\ request.created_before # Undefined => DescriptionDate(i) < EndOfDay(request.created_before)

\* The items the listing of the invocation returned.
ListedDescriptions ==
  Fetched(FetchLimit(SUMMARIES_PER_PAGE, Offset(request.page, SUMMARIES_PER_PAGE)))

\* C30: retrieve_summaries keeps an item exactly when its timestamp is
\* strictly after created_after at 00:00:00.000 UTC and strictly before
\* created_before at 23:59:59.999 UTC, each bound applied only when it is
\* supplied; a created_after day later than the created_before day gives
\* an empty summaries list with total_pages 1 and no error.
C30_KeptStrictlyBetween ==
  SummariesAnswered =>
    /\ envelope.summaries = Slice(SelectSeq(ListedDescriptions, PassesDates), Offset(request.page, SUMMARIES_PER_PAGE), SUMMARIES_PER_PAGE)
    /\ (request.created_after = "day2" /\ request.created_before = "day1") =>
         /\ envelope.summaries = <<>>
         /\ envelope.total_pages = 1
         /\ "error" \notin envelope.keys

C30_Witness ==
  /\ SummariesAnswered
  /\ summaryCount > 0
  /\ request.created_after = "day2"
  /\ request.created_before = "day1"
  /\ envelope.summaries = <<>>

-----------------------------------------------------------------------------
(* C31 *)

\* The URL points at the web video host: an https URL whose host is the
\* host's domain or its short domain.
WebVideoHostUrl(url) ==
  /\ Len(url) >= 2
  /\ url[1] = "https://"
  /\ url[2] \in {"youtube.com", "youtu.be"}

\* The URL is a reference of the platform itself.
PlatformNativeUrl(url) == Len(url) >= 1 /\ url[1] = "cloudglue://"

\* describe_video submitted a job in the invocation being answered.
DescribeSubmitted ==
  /\ request # NoRequest
  /\ request.tool = "describe_video"
  /\ \E i \in DOMAIN calls : calls[i].op = "createDescribe" /\ calls[i].ok

\* The options of that job.
SubmittedOptions == describes[JobOf("createDescribe")].options

\* C31 as claimed: a describe job submitted by describe_video has speech
\* enabled, summary enabled exactly when the URL is a web-video-host URL,
\* scene text and visual scene description enabled exactly when the URL is
\* platform-native, and no URL is taken for both kinds.
C31_AsClaimed ==
  DescribeSubmitted =>
    /\ SubmittedOptions.enable_speech
    /\ SubmittedOptions.enable_summary <=> WebVideoHostUrl(request.url)
    /\ SubmittedOptions.enable_scene_text <=> PlatformNativeUrl(request.url)
    /\ SubmittedOptions.enable_visual_scene_description <=> PlatformNativeUrl(request.url)
    /\ ~(SubmittedOptions.enable_summary /\ SubmittedOptions.enable_scene_text)

(***************************************************************************)
(* formatTime, the helper the two segmentation tools each carry a copy     *)
(* of.  A string is the sequence of its characters.                        *)
(***************************************************************************)

MaxSeconds == 4000

\* Inputs: every second up to a little over an hour, and the seconds
\* around ten and a hundred hours.
SecondsInputs == 0..MaxSeconds \cup {35999, 36000, 86399, 86400, 359999, 360000}

DigitChars == <<"0", "1", "2", "3", "4", "5", "6", "7", "8", "9">>

RECURSIVE NumberToString(_)
\* n.toString() of a non-negative integer
NumberToString(n) ==
  IF n < 10 THEN <<DigitChars[n + 1]>>
  ELSE NumberToString(n \div 10) \o <<DigitChars[(n % 10) + 1]>>

RECURSIVE padStart(_, _, _)
\* str.padStart(targetLength, padString) with a one-character padString
padStart(str, targetLength, padString) ==
  IF Len(str) >= targetLength THEN str
  ELSE padStart(<<padString>> \o str, targetLength, padString)

\* Slip: the minutes are those of the whole duration.
formatTime_WholeMinutes(seconds) ==
  LET hours == seconds \div 3600
      minutes == seconds \div 60
      secs == seconds % 60
      two(n) == padStart(NumberToString(n), 2, "0")
  IN IF hours > 0
     THEN two(hours) \o <<":">> \o two(minutes) \o <<":">> \o two(secs)
     ELSE two(minutes) \o <<":">> \o two(secs)

\* formatTime of the chapter tool
formatTime(seconds) ==
  LET hours == seconds \div 3600
      minutes == (seconds % 3600) \div 60
      secs == seconds % 60
      two(n) == padStart(NumberToString(n), 2, "0")
  IN IF hours > 0
     THEN two(hours) \o <<":">> \o two(minutes) \o <<":">> \o two(secs)
     ELSE two(minutes) \o <<":">> \o two(secs)

\* formatTime of the camera-shot tool
formatTimeOfShots(seconds) ==
  LET hours == seconds \div 3600
      minutes == (seconds % 3600) \div 60
      secs == seconds % 60
      two(n) == padStart(NumberToString(n), 2, "0")
  IN IF hours > 0
     THEN two(hours) \o <<":">> \o two(minutes) \o <<":">> \o two(secs)
     ELSE two(minutes) \o <<":">> \o two(secs)

NotFormatted == <<>>

FormatTimeInit ==
  /\ describes = <<>> /\ extracts = <<>> /\ segmentJobs = <<>>
  /\ mediaDescriptions = {} /\ collectionEntities = {}
  /\ fileCount = 0 /\ collectionVideos = 0 /\ collectionCount = 0
  /\ collectionType = "none" /\ summaryCount = 0
  /\ session = "segment"
  /\ request \in [seconds : SecondsInputs]
  /\ calls = <<>>
  /\ envelope = NoEnvelope
  /\ pc = <<>> /\ fetchList = <<>> /\ settled = <<>>
  /\ slots = [chapters |-> NotFormatted, shots |-> NotFormatted]

\* The chapter tool formats a segment time.
FormatChapterTime ==
  /\ slots.chapters = NotFormatted
  /\ slots' = [slots EXCEPT !.chapters = formatTime(request.seconds)]
  /\ UNCHANGED <<remote, request, calls, envelope, pc, fetchList, settled>>

\* The camera-shot tool formats a segment time.
FormatShotTime ==
  /\ slots.shots = NotFormatted
  /\ slots' = [slots EXCEPT !.shots = formatTimeOfShots(request.seconds)]
  /\ UNCHANGED <<remote, request, calls, envelope, pc, fetchList, settled>>

FormatTimeNext ==
  \/ FormatChapterTime
  \/ FormatShotTime

FormatTimeSpec == FormatTimeInit /\ [][FormatTimeNext]_vars

\* Reading a formatted time back: the fields between the colons, each a
\* decimal number.
RECURSIVE FieldsOf(_)
FieldsOf(str) ==
  IF \A i \in DOMAIN str : str[i] # ":" THEN <<str>>
  ELSE LET c == CHOOSE i \in DOMAIN str : str[i] = ":" /\ \A k \in 1..(i - 1) : str[k] # ":"
       IN <<SubSeq(str, 1, c - 1)>> \o FieldsOf(SubSeq(str, c + 1, Len(str)))

DigitValue(ch) == (CHOOSE d \in 1..10 : DigitChars[d] = ch) - 1

RECURSIVE NumberOf(_)
NumberOf(str) ==
  IF str = <<>> THEN 0
  ELSE 10 * NumberOf(SubSeq(str, 1, Len(str) - 1)) + DigitValue(str[Len(str)])

\* A time string is the zero-padded clock reading of s: MM:SS below an
\* hour, HH:MM:SS from an hour on.
ClockReadingOf(str, s) ==
  LET fields == FieldsOf(str)
      n == Len(fields)
  IN /\ n = (IF s < 3600 THEN 2 ELSE 3)
     /\ \A i \in 1..n : Len(fields[i]) >= 2 /\ \A k \in DOMAIN fields[i] : fields[i][k] \in {DigitChars[d] : d \in 1..10}
     /\ \A i \in 1..n : Len(fields[i]) > 2 => fields[i][1] # "0"
     /\ NumberOf(fields[n]) < 60
     /\ NumberOf(fields[n - 1]) < 60
     /\ s = (IF n = 3 THEN 3600 * NumberOf(fields[1]) ELSE 0) + 60 * NumberOf(fields[n - 1]) + NumberOf(fields[n])

\* The values the specification writes out.
FormatTimeExamples ==
  /\ request.seconds = 0 => slots.chapters = <<"0", "0", ":", "0", "0">>
  /\ request.seconds = 59 => slots.chapters = <<"0", "0", ":", "5", "9">>
  /\ request.seconds = 60 => slots.chapters = <<"0", "1", ":", "0", "0">>
  /\ request.seconds = 3600 => slots.chapters = <<"0", "1", ":", "0", "0", ":", "0", "0">>
  /\ request.seconds = 3661 => slots.chapters = <<"0", "1", ":", "0", "1", ":", "0", "1">>

\* C32: for every non-negative integer s, formatTime(s) is the zero-padded
\* MM:SS of s below 3600 and the zero-padded HH:MM:SS from 3600 on, with
\* the five values the specification gives, and the copies of the chapter
\* tool and of the camera-shot tool give the same string.
C32_FormatTime ==
  /\ slots.chapters # NotFormatted =>
       ClockReadingOf(slots.chapters, request.seconds) /\ FormatTimeExamples
  /\ slots.shots # NotFormatted => ClockReadingOf(slots.shots, request.seconds)
  /\ (slots.chapters # NotFormatted /\ slots.shots # NotFormatted) => slots.chapters = slots.shots

C32_Witness ==
  /\ request.seconds = 3661
  /\ slots.chapters = <<"0", "1", ":", "0", "1", ":", "0", "1">>
  /\ slots.shots = slots.chapters

-----------------------------------------------------------------------------
(* C33 *)

ReadOnlyTools == {"list_collections", "list_videos", "get_video_metadata", "retrieve_summaries", "search_video_moments", "search_video_summaries"}

SubmittingTools == {"describe_video", "extract_video_entities", "segment_video_chapters", "segment_video_camera_shots"}

\* The jobs of a store are kept as they are, and jobs are at most added.
Grown(store, store2) ==
  /\ Len(store2) >= Len(store)
  /\ \A i \in DOMAIN store : store2[i] = store[i]

\* The step changes the jobs of the service.
JobsChange ==
  describes' # describes \/ extracts' # extracts \/ segmentJobs' # segmentJobs

\* The step is an invocation that submitted a job and got its id.
SubmittedInStep ==
  /\ request' # NoRequest
  /\ request'.tool \in SubmittingTools
  /\ \E i \in DOMAIN calls' : calls'[i].op \in SubmitOps /\ calls'[i].ok

\* C33: no invocation deletes or modifies a job or a stored artifact of the
\* service: the jobs only grow, only in an invocation of one of the four
\* content tools that submitted a job, and an invocation of
\* list_collections, list_videos, get_video_metadata, retrieve_summaries,
\* search_video_moments or search_video_summaries leaves the jobs as they
\* are.
C33_JobsOnlyGrow ==
  [][/\ Grown(describes, describes')
     /\ Grown(extracts, extracts')
     /\ Grown(segmentJobs, segmentJobs')
     /\ mediaDescriptions' = mediaDescriptions
     /\ collectionEntities' = collectionEntities
     /\ <<fileCount, collectionVideos, collectionCount, collectionType, summaryCount>>' = <<fileCount, collectionVideos, collectionCount, collectionType, summaryCount>>
     /\ JobsChange => SubmittedInStep
     /\ (request' # NoRequest /\ request'.tool \in ReadOnlyTools) => ~JobsChange]_vars

\* A job was submitted behind a job the service already held.
C33_Witness ==
  /\ request # NoRequest
  /\ request.tool \in SubmittingTools
  /\ \E i \in DOMAIN calls : calls[i].op \in SubmitOps /\ calls[i].ok /\ calls[i].job > 1

-----------------------------------------------------------------------------
(* C34 *)

\* total_pages as page 0 of the same request reports it: the collection
\* and the date filters are those of the invocation being answered.
TotalPagesOfFirstPage ==
  TotalPagesOfCount(Len(FilteredDescriptions(Fetched(FetchLimit(SUMMARIES_PER_PAGE, 0)), request.created_after, request.created_before)), SUMMARIES_PER_PAGE)

\* C34 as claimed: for a fixed content of the collection and fixed date
\* filters retrieve_summaries reports the same total_pages whatever page is
\* asked for, so the total_pages of any page is the one page 0 reports.
C34_AsClaimed ==
  SummariesAnswered => envelope.total_pages = TotalPagesOfFirstPage

(***************************************************************************)
(* Two invocations of describe_video for the same URL, each seen await by  *)
(* await from Step 2 on (page 0, start 0, no collection_id), with the      *)
(* service completing the jobs on its own.  pc[p] is the call invocation p *)
(* awaits, slots[p] the job it holds and what it returned.                 *)
(***************************************************************************)

Invocations == {1, 2}

NoJob == 0

ConcurrentInit ==
  /\ describes = <<>> /\ extracts = <<>> /\ segmentJobs = <<>>
  /\ mediaDescriptions = {} /\ collectionEntities = {}
  /\ fileCount = 0 /\ collectionVideos = 0 /\ collectionCount = 0
  /\ collectionType = "none" /\ summaryCount = 0
  /\ session = "describe"
  /\ request \in {[tool |-> "describe_video", url |-> u, collection_id |-> Undefined, prompt |-> Undefined, page |-> 0, start_time_seconds |-> 0] : u \in Urls}
  /\ calls = <<>>
  /\ envelope = NoEnvelope
  /\ pc = [p \in Invocations |-> "listDescribes"]
  /\ slots = [p \in Invocations |-> [job |-> NoJob, path |-> "none"]]
  /\ fetchList = <<>> /\ settled = <<>>

ConcurrentFrame ==
  UNCHANGED <<extracts, segmentJobs, mediaDescriptions, collectionEntities, fileCount, collectionVideos, collectionCount, collectionType, summaryCount, session, request, calls, envelope, fetchList, settled>>

Goes(p, position, job, path) ==
  /\ pc' = [pc EXCEPT ![p] = position]
  /\ slots' = [slots EXCEPT ![p] = [job |-> job, path |-> path]]

\* Step 2: listDescribes settles.
ListDescribesSettles ==
  \E p \in Invocations :
    /\ pc[p] = "listDescribes"
    /\ LET existingDescriptions == ListLatest(describes, request.url)
       IN \/ \* listDescribes throws
             Goes(p, "createDescribe", NoJob, "none")
          \/ IF Len(existingDescriptions) > 0
             THEN IF describes[existingDescriptions[1]].duration_seconds = 0
                  THEN Goes(p, "returned", existingDescriptions[1], "existing")
                  ELSE Goes(p, "getDescribe", existingDescriptions[1], "none")
             ELSE Goes(p, "createDescribe", NoJob, "none")
    /\ describes' = describes
    /\ ConcurrentFrame

\* Step 2: getDescribe of the listed job settles.
GetDescribeSettles ==
  \E p \in Invocations :
    /\ pc[p] = "getDescribe"
    /\ \/ Goes(p, "returned", slots[p].job, "existing")
       \/ \* getDescribe throws
          Goes(p, "createDescribe", NoJob, "none")
    /\ describes' = describes
    /\ ConcurrentFrame

\* Step 3: createDescribe settles.
CreateDescribeSettles ==
  \E p \in Invocations :
    /\ pc[p] = "createDescribe"
    /\ \/ /\ describes' = StoreJob(describes, [url |-> request.url, status |-> "pending", duration_seconds |-> 0, options |-> DescribeOptions(request.url)])
          /\ Goes(p, "waitForReady", Len(describes) + 1, "none")
       \/ \* createDescribe throws
          /\ describes' = describes
          /\ Goes(p, "returned", NoJob, "failure")
    /\ ConcurrentFrame

\* The service finishes a job.
JobEnds ==
  \E j \in DOMAIN describes :
    /\ describes[j].status = "pending"
    /\ \/ \E duration \in Durations : describes' = [describes EXCEPT ![j].status = "completed", ![j].duration_seconds = duration]
       \/ describes' = [describes EXCEPT ![j].status = "failed"]
    /\ UNCHANGED <<pc, slots>>
    /\ ConcurrentFrame

\* Step 3: waitForReady settles, with the finished job or by giving up.
WaitForReadySettles ==
  \E p \in Invocations :
    /\ pc[p] = "waitForReady"
    /\ \/ /\ describes[slots[p].job].status = "completed"
          /\ IF describes[slots[p].job].duration_seconds > 0
             THEN Goes(p, "getDescribe of new job", slots[p].job, "none")
             ELSE Goes(p, "returned", slots[p].job, "new")
       \/ /\ describes[slots[p].job].status = "failed"
          /\ Goes(p, "returned", slots[p].job, "failure")
       \/ \* waitForReady throws
          Goes(p, "returned", slots[p].job, "failure")
    /\ describes' = describes
    /\ ConcurrentFrame

\* Step 3: getDescribe of the new job settles.
GetNewDescribeSettles ==
  \E p \in Invocations :
    /\ pc[p] = "getDescribe of new job"
    /\ \/ Goes(p, "returned", slots[p].job, "new")
       \/ Goes(p, "returned", slots[p].job, "failure")
    /\ describes' = describes
    /\ ConcurrentFrame

ConcurrentNext ==
  \/ ListDescribesSettles
  \/ GetDescribeSettles
  \/ CreateDescribeSettles
  \/ JobEnds
  \/ WaitForReadySettles
  \/ GetNewDescribeSettles

ConcurrentSpec == ConcurrentInit /\ [][ConcurrentNext]_vars

\* The describe jobs the service holds for the URL of the invocations.
JobsForUrl == {j \in DOMAIN describes : describes[j].url = request.url}

\* C35 as claimed: whatever the interleaving of two concurrent invocations
\* of describe_video for one URL, starting with no describe job for it, at
\* most one describe job is submitted for the URL.
C35_AsClaimed == Cardinality(JobsForUrl) <= 1

-----------------------------------------------------------------------------
(* C36 *)

\* extract_video_entities read, in the collection path, a stored extraction
\* with segment entities, and the page asked for lies behind the last one.
C36_Case ==
  /\ request # NoRequest
  /\ request.tool = "extract_video_entities"
  /\ \E i \in DOMAIN calls : calls[i].op = "getEntities" /\ calls[i].ok
  /\ LET stored == getEntities(request.collection_id, extractFileIdFromUrl(request.url))
     IN /\ stored.found
        /\ stored.total > 0
        /\ request.page >= CeilDiv(stored.total, SEGMENTS_PER_PAGE)

\* C36 as claimed: in that case the document is a success document with no
\* segment entities and total_pages = ceil(N / 25), never the document
\* with the error that no entities were found.
C36_AsClaimed ==
  C36_Case =>
    /\ envelope.path = "collection"
    /\ "error" \notin envelope.keys
    /\ envelope.entities.length = 0
    /\ envelope.total_pages = CeilDiv(getEntities(request.collection_id, extractFileIdFromUrl(request.url)).total, SEGMENTS_PER_PAGE)

-----------------------------------------------------------------------------
(* C37 *)

\* list_collections answered with at least one collection.
CollectionsAnswered ==
  /\ request # NoRequest
  /\ request.tool = "list_collections"
  /\ envelope.path = "success"
  /\ envelope.length > 0

\* C37 as claimed: for every collection list_collections returns,
\* completed_video_count is the number of completed videos of the
\* collection, whatever its size.
C37_AsClaimed ==
  CollectionsAnswered => envelope.completed_video_count = collectionVideos

====
